---- MODULE Spec2Model ----
(***************************************************************************)
(* Host <-> webview synchronisation of the LobeHub markdown custom editor. *)
(*                                                                         *)
(* Surface side: media-src/src/main.tsx (EditorApp).                       *)
(* Host side:    the extension's resolveCustomTextEditor (unnamed/part_000)*)
(*                                                                         *)
(* Content is a sequence of characters; "LF" and "CR" stand for \n and \r. *)
(* The rich-text engine is an external collaborator: its markdown          *)
(* projection is kept in the canonical (\n only) form.                     *)
(***************************************************************************)
EXTENDS Integers, Sequences, FiniteSets, TLC

VARIABLES
  \* ---- surface (EditorApp refs, main.tsx:185-194) ----
  ready,                 \* readyRef
  applyingRemote,        \* applyingRemoteRef
  hasUserInteraction,    \* hasUserInteractionRef
  lastSyncedMarkdown,    \* lastSyncedMarkdownRef
  pendingRemoteContent,  \* pendingRemoteContentRef: <<>> is null, <<c>> is the string c
  tocRaf,                \* tocRafRef: TRUE when an outline pass is scheduled
  editorMarkdown,        \* editor.getDocument('markdown')
  setDocCall,            \* <<>> or the editor.setDocument call now on the stack
  listenerDue,           \* the engine's update listener is committed but has not run yet
  \* ---- host (resolveCustomTextEditor closure, part_000:231-232) ----
  docText,               \* document.getText()
  docEol,                \* document.eol
  isApplyingFromWebview, \* isApplyingFromWebview
  applyEdits,            \* workspace.applyEdit calls in flight, oldest first
  diskText,              \* the text of the file as document.save() left it
  \* ---- transport ----
  toHost,                \* surface -> host messages in flight
  toSurface,             \* host -> surface messages in flight
  \* ---- history (observation only, never read by the program) ----
  lastOp,                \* the step taken last
  markedSinceApply,      \* markUserInteraction ran since the last completed direct applyRemote
  snapshotApplied,       \* some snapshot has been applied to the editor
  scenario,              \* the changes of the convergence scenario that have happened, with their texts
  nEvents,               \* environment events so far (edits, saves, host-side changes, faults)
  \* ---- surface: outline and image upload (main.tsx:175, 192-194) ----
  mounted,               \* the message effect of EditorApp is set up (listener attached)
  tocItems,              \* tocItems state: the outline shown
  uploadResolvers,       \* keys of uploadResolversRef.current
  uploadTimers,          \* request ids whose 30 s window.setTimeout is armed
  uploadOps,             \* per request id: the promise handleImageUpload returned
  \* ---- host: image upload (part_000:116-179, 355-404) ----
  hostJobs,              \* upload-image handlers suspended at an await
  assetFiles,            \* the assets directory: file name -> whose bytes it holds
  hostLog,               \* history: upload-image messages received and results posted
  \* ---- surface: outline trackers and the page they read (main.tsx:178, 190-191) ----
  headingNodes,          \* the h1..h6 elements of the editor, in document order
  selectionAnchor,       \* where the selection anchor is: 0 elsewhere, -1 title, i the i-th heading
  scrollY,               \* scroll offset of the page
  innerHeight,           \* window.innerHeight
  activeTocId,           \* activeTocId state ("" is null)
  rafCallbacks,          \* animation-frame callbacks requested and neither run nor cancelled
  tocRafRef,             \* tocRafRef.current (0 is undefined)
  activeTocRafRef,       \* activeTocRafRef.current (0 is undefined)
  rafSeq,                \* the handle requestAnimationFrame returned last
  burst,                 \* history: per tracker, the requests since its pass last ran
  passFailed,            \* history: updateTocFromDom has thrown in some pass
  \* ---- surface: the preview of one Mermaid block (main.tsx:1044-1050) ----
  previewCode,           \* the code prop of MermaidPreview
  previewIsEmpty,        \* isEmpty state; the canvas element is mounted iff it is false
  previewError,          \* error state (<<>> is null)
  previewCanvas,         \* innerHTML of the canvas element (<<>> is empty)
  renderTokenRef,        \* renderTokenRef.current
  previewRenders,        \* mermaid.render calls awaited: token and source of each
  previewEffectDue       \* the render effect is to run for the committed props

vars == <<ready, applyingRemote, hasUserInteraction, lastSyncedMarkdown,
          pendingRemoteContent, tocRaf, editorMarkdown, setDocCall, listenerDue,
          docText, docEol, isApplyingFromWebview, applyEdits, diskText,
          toHost, toSurface,
          lastOp, markedSinceApply, snapshotApplied,
          scenario, nEvents,
          mounted, tocItems, uploadResolvers, uploadTimers, uploadOps,
          hostJobs, assetFiles, hostLog,
          headingNodes, selectionAnchor, scrollY, innerHeight, activeTocId,
          rafCallbacks, tocRafRef, activeTocRafRef, rafSeq, burst, passFailed,
          previewCode, previewIsEmpty, previewError, previewCanvas, renderTokenRef,
          previewRenders, previewEffectDue>>

surfaceVars == <<ready, applyingRemote, hasUserInteraction, lastSyncedMarkdown,
                 pendingRemoteContent, tocRaf, editorMarkdown, setDocCall, listenerDue>>
hostVars == <<docText, docEol, isApplyingFromWebview, applyEdits, diskText>>
uploadVars == <<mounted, tocItems, uploadResolvers, uploadTimers, uploadOps,
                hostJobs, assetFiles, hostLog>>
outlineVars == <<headingNodes, selectionAnchor, scrollY, innerHeight, activeTocId,
                 rafCallbacks, tocRafRef, activeTocRafRef, rafSeq, burst, passFailed>>
mermaidVars == <<previewCode, previewIsEmpty, previewError, previewCanvas, renderTokenRef,
                 previewRenders, previewEffectDue>>

(***************************************************************************)
(* Bounds of the model.                                                    *)
(***************************************************************************)
\* environment events (content changes, saves, host-side changes, engine faults) per behaviour
MaxEvents == 3

\* length of the content strings normalisation is tried on
MaxContentLen == 4

(***************************************************************************)
(* Content values.                                                         *)
(***************************************************************************)
EmptyContent == <<>>

\* canonical texts a document or the editor may hold
Texts == { <<"a">>, <<"a", "LF", "b">> }

Eols == {"LF", "CRLF"}

RECURSIVE ReplaceCrLf(_)
\* content.replace(/\r\n/g, '\n')
ReplaceCrLf(s) ==
  IF s = <<>> THEN <<>>
  ELSE IF Len(s) >= 2 /\ s[1] = "CR" /\ s[2] = "LF"
       THEN <<"LF">> \o ReplaceCrLf(SubSeq(s, 3, Len(s)))
       ELSE <<s[1]>> \o ReplaceCrLf(Tail(s))

RECURSIVE ReplaceCr(_)
\* .replace(/\r/g, '\n')
ReplaceCr(s) ==
  IF s = <<>> THEN <<>>
  ELSE <<(IF s[1] = "CR" THEN "LF" ELSE s[1])>> \o ReplaceCr(Tail(s))

RECURSIVE ReplaceLfByCrLf(_)
\* .replace(/\n/g, '\r\n')
ReplaceLfByCrLf(s) ==
  IF s = <<>> THEN <<>>
  ELSE (IF s[1] = "LF" THEN <<"CR", "LF">> ELSE <<s[1]>>) \o ReplaceLfByCrLf(Tail(s))

\* normalisation without the pass over lone \r
normalizeContentForDocument_NoCanonical(content, eol) ==
  IF eol = "LF" THEN ReplaceCrLf(content) ELSE ReplaceLfByCrLf(content)

normalizeContentForDocument(content, eol) ==
  LET normalizedLf == ReplaceCr(ReplaceCrLf(content))
  IN  IF eol = "LF" THEN normalizedLf ELSE ReplaceLfByCrLf(normalizedLf)

\* The engine's markdown projection after setDocument('markdown', md): the
\* surface content is kept with \n line endings only.
EditorSetDocument(md) == ReplaceCr(ReplaceCrLf(md))

(***************************************************************************)
(* Messages.                                                               *)
(***************************************************************************)
Msg(command, type, content) == [command |-> command, type |-> type, content |-> content]

ReadyMsg == Msg("ready", "", EmptyContent)
EditMsg(markdown) == Msg("edit", "", markdown)
SaveMsg(markdown) == Msg("save", "", markdown)
ThemeMsg == Msg("theme", "", EmptyContent)

\* a content field that is not a string (typeof content !== 'string')
NotAString == <<"<not a string>">>

\* messages no handler is written for: a value that is not an object (a
\* string), null, an object without a command field, an unknown command
PrimitiveMessage == [primitive |-> "string"]
NullMessage == [primitive |-> "null"]
NoCommandMessage == [content |-> EmptyContent]
UnknownCommandMessage == Msg("unknown", "", EmptyContent)

\* typeof message.content === 'string'
HasStringContent_Unchecked(message) == TRUE
HasStringContent(message) == message.content # NotAString

\* message && typeof message === 'object' && 'command' in message
IsCommandMessage(message) ==
  /\ "primitive" \notin DOMAIN message
  /\ "command" \in DOMAIN message
\* postDocumentToWebview: the payload carries document.getText()
UpdateMsg(type, text) == Msg("update", type, text)


\* TextDocument.getText() of a document holding the canonical text c: VS Code
\* keeps a document in its own end-of-line sequence throughout.
DocTextOf(c, eol) == IF eol = "LF" THEN c ELSE ReplaceLfByCrLf(c)

(***************************************************************************)
(* Outline and upload values.                                              *)
(***************************************************************************)
\* ids createRequestId hands out
RequestIds == {"r1", "r2"}

\* the promise of an upload nobody has started
NoPromise == [stage |-> "none", settles |-> 0, outcome |-> "none"]

RECURSIVE SplitLines(_, _)
\* the lines of a markdown text
SplitLines(s, line) ==
  IF s = <<>> THEN <<line>>
  ELSE IF s[1] = "LF"
       THEN <<line>> \o SplitLines(Tail(s), <<>>)
       ELSE SplitLines(Tail(s), Append(line, s[1]))

RECURSIVE ExtractHeadings(_)
\* the heading nodes with text: a line "# text" renders as an h1
ExtractHeadings(lines) ==
  IF lines = <<>> THEN <<>>
  ELSE (IF Len(lines[1]) >= 2 /\ lines[1][1] = "#"
        THEN <<[level |-> 1, text |-> Tail(lines[1])]>>
        ELSE <<>>) \o ExtractHeadings(Tail(lines))

\* the document-title entry put in front of a non-empty outline
TocTitleItem == [depth |-> 0, id |-> "toc-document-title", level |-> 1, text |-> <<"title">>]

\* what String.prototype.trim removes
WhiteSpace == {" ", "LF", "CR"}

RECURSIVE TrimStart(_)
\* String.prototype.trim, leading part
TrimStart(text) ==
  IF text # <<>> /\ Head(text) \in WhiteSpace THEN TrimStart(Tail(text)) ELSE text

RECURSIVE TrimEnd(_)
TrimEnd(text) ==
  IF text # <<>> /\ text[Len(text)] \in WhiteSpace
  THEN TrimEnd(SubSeq(text, 1, Len(text) - 1))
  ELSE text

\* node.textContent?.trim() ?? ''
Trim(text) == TrimEnd(TrimStart(text))

\* .filter((item) => Boolean(item.text))
HasText(node) == Trim(node.text) # <<>>

\* index of a heading in `extracted`: position among the headings with text
ExtractedIndex_AmongAll(nodes, i) == i - 1
ExtractedIndex(nodes, i) == Cardinality({ j \in 1..(i - 1) : HasText(nodes[j]) })

TocHeadingId_SameForAll(index) == "toc-heading-0"
\* `toc-heading-${index}`
TocHeadingId(index) == "toc-heading-" \o ToString(index)

\* nextItems of updateTocFromDom for the heading elements `nodes`
TocItemsOf(nodes) ==
  LET extracted == SelectSeq(nodes, HasText)
      items == [index \in 1..Len(extracted) |->
                  [depth |-> IF extracted[index].level - 1 > 0
                             THEN extracted[index].level - 1 ELSE 0,
                   id    |-> TocHeadingId(index - 1),
                   level |-> extracted[index].level,
                   text  |-> Trim(extracted[index].text)]]
  IN IF Len(items) > 0 THEN <<TocTitleItem>> \o items ELSE items

\* the heading elements after updateTocFromDom: dataset.tocId is set on the
\* headings with text and deleted ("") on the others
WithTocIds(nodes) ==
  [i \in 1..Len(nodes) |->
     [nodes[i] EXCEPT !.tocId = IF HasText(nodes[i])
                                THEN TocHeadingId(ExtractedIndex(nodes, i))
                                ELSE ""]]

\* nextItems of updateTocFromDom for the editor holding md
NextTocItems(md) == TocItemsOf(ExtractHeadings(SplitLines(md, <<>>)))

isSameToc(a, b) ==
  /\ Len(a) = Len(b)
  /\ \A index \in 1..Len(a) :
       /\ a[index].id = b[index].id
       /\ a[index].depth = b[index].depth
       /\ a[index].level = b[index].level
       /\ a[index].text = b[index].text

\* no upload has been started and the assets directory holds what files it holds
NoUploads ==
  /\ mounted = TRUE
  /\ uploadResolvers = {}
  /\ uploadTimers = {}
  /\ uploadOps = [r \in RequestIds |-> NoPromise]
  /\ hostJobs = {}
  /\ hostLog = <<>>

\* both trackers at rest: no frame requested, nothing active
TrackersAtRest ==
  /\ activeTocId = ""
  /\ rafCallbacks = {}
  /\ tocRafRef = 0
  /\ activeTocRafRef = 0
  /\ rafSeq = 0
  /\ burst = [tracker \in {"toc", "active"} |-> 0]
  /\ passFailed = FALSE

\* a page without headings, scrolled to the top
NoOutline ==
  /\ headingNodes = <<>>
  /\ selectionAnchor = 0
  /\ scrollY = 0
  /\ innerHeight = 700
  /\ TrackersAtRest

\* the document has no Mermaid block
NoPreview ==
  /\ previewCode = <<>>
  /\ previewIsEmpty = FALSE
  /\ previewError = <<>>
  /\ previewCanvas = <<>>
  /\ renderTokenRef = 0
  /\ previewRenders = {}
  /\ previewEffectDue = FALSE

(***************************************************************************)
(* Initial state: the webview has mounted, the message effect has posted   *)
(* `ready` (main.tsx:669), the editor engine has not called onInit yet.    *)
(***************************************************************************)
Init ==
  /\ ready = FALSE
  /\ applyingRemote = FALSE
  /\ hasUserInteraction = FALSE
  /\ lastSyncedMarkdown = EmptyContent
  /\ pendingRemoteContent = <<>>
  /\ tocRaf = FALSE
  /\ editorMarkdown = EmptyContent
  /\ setDocCall = <<>>
  /\ listenerDue = FALSE
  /\ docEol \in Eols
  /\ docText \in { DocTextOf(t, docEol) : t \in Texts }
  /\ diskText = docText
  /\ isApplyingFromWebview = FALSE
  /\ applyEdits = <<>>
  /\ toHost = <<ReadyMsg>>
  /\ toSurface = <<>>
  /\ lastOp = "init"
  /\ markedSinceApply = FALSE
  /\ snapshotApplied = FALSE
  /\ scenario = {}
  /\ nEvents = 0
  /\ NoUploads
  /\ tocItems = <<>>
  /\ assetFiles = <<>>
  /\ NoOutline
  /\ NoPreview

(***************************************************************************)
(* Surface: the echo-suppression sync engine.                              *)
(***************************************************************************)
\* The surface's event loop is free to start a new task: no setDocument call
\* is on the stack and no committed update listener is waiting to run.
SurfaceIdle == setDocCall = <<>> /\ ~listenerDue

\* syncToHost without its applyingRemote guard
SyncToHostEmits_NoApplyingGuard(md) ==
  /\ hasUserInteraction
  /\ md # lastSyncedMarkdown

\* syncToHost's three early returns; md is editor.getDocument('markdown')
SyncToHostEmits(md) ==
  /\ ~applyingRemote
  /\ hasUserInteraction
  /\ md # lastSyncedMarkdown

\* syncToHost without the comparison against lastSyncedMarkdownRef
syncToHost_NoEchoGuard(md) ==
  IF ~applyingRemote /\ hasUserInteraction
  THEN /\ lastSyncedMarkdown' = md
       /\ toHost' = Append(toHost, EditMsg(md))
  ELSE UNCHANGED <<lastSyncedMarkdown, toHost>>

\* syncToHost: post `edit` and remember the content unless an early return applies
syncToHost(md) ==
  IF SyncToHostEmits(md)
  THEN /\ lastSyncedMarkdown' = md
       /\ toHost' = Append(toHost, EditMsg(md))
  ELSE UNCHANGED <<lastSyncedMarkdown, toHost>>

\* the registered update listener, once past its own dirtiness checks
UpdateListener(md) ==
  /\ syncToHost(md)
  /\ tocRaf' = TRUE

\* capture-phase listener on beforeinput/cut/drop/input/keydown/paste/pointerdown
markUserInteraction ==
  /\ SurfaceIdle
  /\ hasUserInteraction' = TRUE
  /\ markedSinceApply' = TRUE
  /\ lastOp' = "markUserInteraction"
  /\ UNCHANGED <<ready, applyingRemote, lastSyncedMarkdown, pendingRemoteContent, tocRaf,
                 editorMarkdown, setDocCall, listenerDue, hostVars, toHost, toSurface,
                 snapshotApplied, nEvents>>

\* The editor content changes to c by something other than setDocument (user
\* input, or a programmatic mutation) and the update listener runs in the same task.
LocalChange(c) ==
  /\ ready
  /\ SurfaceIdle
  /\ c # editorMarkdown
  /\ editorMarkdown' = c
  /\ UpdateListener(c)
  /\ nEvents' = nEvents + 1
  /\ lastOp' = "localChange"
  /\ UNCHANGED <<ready, applyingRemote, hasUserInteraction, pendingRemoteContent,
                 setDocCall, listenerDue, hostVars, toSurface,
                 markedSinceApply, snapshotApplied>>

\* a save routed through the echo guard of syncToHost
handleSave_ThroughEchoGuard ==
  /\ SurfaceIdle
  /\ IF SyncToHostEmits(editorMarkdown)
     THEN /\ lastSyncedMarkdown' = editorMarkdown
          /\ toHost' = Append(toHost, SaveMsg(editorMarkdown))
     ELSE UNCHANGED <<lastSyncedMarkdown, toHost>>
  /\ nEvents' = nEvents + 1
  /\ lastOp' = "handleSave"
  /\ UNCHANGED <<ready, applyingRemote, hasUserInteraction, pendingRemoteContent, tocRaf,
                 editorMarkdown, setDocCall, listenerDue, hostVars, toSurface,
                 markedSinceApply, snapshotApplied, scenario>>

handleSave ==
  /\ SurfaceIdle
  /\ lastSyncedMarkdown' = editorMarkdown
  /\ toHost' = Append(toHost, SaveMsg(editorMarkdown))
  /\ nEvents' = nEvents + 1
  /\ lastOp' = "handleSave"
  /\ UNCHANGED <<ready, applyingRemote, hasUserInteraction, pendingRemoteContent, tocRaf,
                 editorMarkdown, setDocCall, listenerDue, hostVars, toSurface,
                 markedSinceApply, snapshotApplied, scenario>>

\* setEditorMarkdown without the early return on readyRef
SetEditorMarkdownBranch_IgnoresReady(markdown) ==
  IF editorMarkdown = markdown THEN "equal" ELSE "replace"

\* which branch setEditorMarkdown takes for this snapshot content
SetEditorMarkdownBranch(markdown) ==
  IF ~ready THEN "pending"
  ELSE IF editorMarkdown = markdown THEN "equal"
  ELSE "replace"

\* entering editor.setDocument('markdown', markdown, {keepId: true}) with the flag raised
EnterSetDocument(via, markdown) ==
  /\ applyingRemote' = TRUE
  /\ editorMarkdown' = EditorSetDocument(markdown)
  /\ setDocCall' = << [via |-> via, markdown |-> markdown, notified |-> FALSE] >>

\* setEditorMarkdown without the reset of hasUserInteractionRef
SetEditorMarkdownInteraction_NoReset(branch) == hasUserInteraction

\* the value setEditorMarkdown leaves in hasUserInteractionRef
SetEditorMarkdownInteraction(branch) == FALSE

setEditorMarkdown(markdown) ==
  LET branch == SetEditorMarkdownBranch(markdown) IN
  /\ hasUserInteraction' = SetEditorMarkdownInteraction(branch)
  /\ CASE branch = "pending" ->
            /\ pendingRemoteContent' = <<markdown>>
            /\ lastOp' = "applyRemotePending"
            /\ UNCHANGED <<applyingRemote, lastSyncedMarkdown, editorMarkdown, setDocCall,
                           markedSinceApply, snapshotApplied>>
       [] branch = "equal" ->
            /\ lastSyncedMarkdown' = markdown
            /\ lastOp' = "applyRemoteEqual"
            /\ markedSinceApply' = FALSE
            /\ snapshotApplied' = TRUE
            /\ UNCHANGED <<applyingRemote, pendingRemoteContent, editorMarkdown, setDocCall>>
       [] branch = "replace" ->
            /\ EnterSetDocument("setEditorMarkdown", markdown)
            /\ lastOp' = "applyRemoteReplace"
            /\ UNCHANGED <<lastSyncedMarkdown, pendingRemoteContent,
                           markedSinceApply, snapshotApplied>>

\* window 'message' listener
handleMessage ==
  /\ SurfaceIdle
  /\ toSurface # <<>>
  /\ IsCommandMessage(Head(toSurface)) => Head(toSurface).command # "upload-image-result"
  /\ toSurface' = Tail(toSurface)
  /\ LET message == Head(toSurface) IN
       CASE ~IsCommandMessage(message) ->
              /\ lastOp' = "handleMessageReturns"
              /\ UNCHANGED <<applyingRemote, hasUserInteraction, lastSyncedMarkdown,
                             pendingRemoteContent, editorMarkdown, setDocCall,
                             markedSinceApply, snapshotApplied>>
         [] IsCommandMessage(message) /\ message.command = "theme" ->
              /\ lastOp' = "handleTheme"
              /\ UNCHANGED <<applyingRemote, hasUserInteraction, lastSyncedMarkdown,
                             pendingRemoteContent, editorMarkdown, setDocCall,
                             markedSinceApply, snapshotApplied>>
         [] IsCommandMessage(message) /\ message.command = "update" ->
              IF HasStringContent(message)
              THEN setEditorMarkdown(message.content)
              ELSE /\ lastOp' = "handleUpdateNoContent"
                   /\ UNCHANGED <<applyingRemote, hasUserInteraction, lastSyncedMarkdown,
                                  pendingRemoteContent, editorMarkdown, setDocCall,
                                  markedSinceApply, snapshotApplied>>
         [] OTHER ->
              /\ lastOp' = "handleMessageNoCommandMatches"
              /\ UNCHANGED <<applyingRemote, hasUserInteraction, lastSyncedMarkdown,
                             pendingRemoteContent, editorMarkdown, setDocCall,
                             markedSinceApply, snapshotApplied>>
  /\ UNCHANGED <<ready, tocRaf, listenerDue, hostVars, toHost, nEvents, scenario>>

\* the update listener runs synchronously inside setDocument, flag still raised
ListenerInSetDocument ==
  /\ setDocCall # <<>>
  /\ ~setDocCall[1].notified
  /\ UpdateListener(editorMarkdown)
  /\ setDocCall' = << [setDocCall[1] EXCEPT !.notified = TRUE] >>
  /\ lastOp' = "listenerInSetDocument"
  /\ UNCHANGED <<ready, applyingRemote, hasUserInteraction, pendingRemoteContent,
                 editorMarkdown, listenerDue, hostVars, toSurface,
                 markedSinceApply, snapshotApplied, nEvents, scenario>>

\* the caller forgets to record the snapshot it has just applied
SyncedAfterSetDocument_Stale(call) == lastSyncedMarkdown

\* what the caller stores in lastSyncedMarkdownRef once setDocument has returned
SyncedAfterSetDocument(call) == call.markdown

\* setDocument returns; the caller lowers the flag, records the snapshot and
\* schedules the outline pass. deferred: the engine commits its update listener
\* asynchronously, so it runs only after the caller has finished.
SetDocumentReturns(deferred) ==
  /\ setDocCall # <<>>
  /\ applyingRemote' = FALSE
  /\ lastSyncedMarkdown' = SyncedAfterSetDocument(setDocCall[1])
  /\ tocRaf' = TRUE
  /\ setDocCall' = <<>>
  /\ listenerDue' = (deferred /\ ~setDocCall[1].notified)
  /\ markedSinceApply' = (IF setDocCall[1].via = "setEditorMarkdown" THEN FALSE ELSE markedSinceApply)
  /\ snapshotApplied' = TRUE
  /\ lastOp' = (IF setDocCall[1].via = "onInit" THEN "onInitApplied" ELSE "applyRemoteApplied")
  /\ UNCHANGED <<ready, hasUserInteraction, pendingRemoteContent, editorMarkdown,
                 hostVars, toHost, toSurface, nEvents, scenario>>

\* setDocument throws: nothing after the call runs (there is no try/finally)
SetDocumentThrows ==
  /\ setDocCall # <<>>
  /\ setDocCall' = <<>>
  /\ nEvents' = nEvents + 1
  /\ lastOp' = "setDocumentThrows"
  /\ UNCHANGED <<ready, applyingRemote, hasUserInteraction, lastSyncedMarkdown,
                 pendingRemoteContent, tocRaf, editorMarkdown, listenerDue, hostVars,
                 toHost, toSurface, markedSinceApply, snapshotApplied, scenario>>

\* the deferred update listener of a remote replacement runs
DeferredListener ==
  /\ listenerDue
  /\ setDocCall = <<>>
  /\ UpdateListener(editorMarkdown)
  /\ listenerDue' = FALSE
  /\ lastOp' = "deferredListener"
  /\ UNCHANGED <<ready, applyingRemote, hasUserInteraction, pendingRemoteContent,
                 editorMarkdown, setDocCall, hostVars, toSurface,
                 markedSinceApply, snapshotApplied, nEvents, scenario>>

\* <Editor onInit>
EditorOnInit ==
  /\ ~ready
  /\ SurfaceIdle
  /\ ready' = TRUE
  /\ IF pendingRemoteContent # <<>>
     THEN /\ EnterSetDocument("onInit", pendingRemoteContent[1])
          /\ UNCHANGED tocRaf
     ELSE /\ tocRaf' = TRUE
          /\ UNCHANGED <<applyingRemote, editorMarkdown, setDocCall>>
  /\ lastOp' = "onInit"
  /\ UNCHANGED <<hasUserInteraction, lastSyncedMarkdown, pendingRemoteContent, listenerDue,
                 hostVars, toHost, toSurface, markedSinceApply, snapshotApplied, nEvents, scenario>>

(***************************************************************************)
(* Host: resolveCustomTextEditor.                                          *)
(***************************************************************************)
postDocumentToWebview(type, text) ==
  toSurface' = Append(toSurface, UpdateMsg(type, text))

\* the onDidChangeTextDocument subscription, for a change of this document
\* that leaves it holding text
onDidChangeTextDocument(text) ==
  IF isApplyingFromWebview
  THEN UNCHANGED toSurface
  ELSE postDocumentToWebview("update", text)

\* applyContent up to its await: the edit is handed to workspace.applyEdit
\* `then` is what the caller does once the call has returned: "save" in the
\* save case, "break" in the edit case
applyContent(content, then) ==
  LET normalizedContent == normalizeContentForDocument(content, docEol) IN
  IF normalizedContent = docText
  THEN UNCHANGED <<isApplyingFromWebview, applyEdits>>
  ELSE /\ isApplyingFromWebview' = TRUE
       /\ applyEdits' = Append(applyEdits, [content |-> normalizedContent, landed |-> FALSE,
                                            then |-> then])

\* the value the finally block of applyContent leaves in isApplyingFromWebview
ApplyContentFinally == FALSE

\* the save case persisting although applyContent has not returned yet
DiskAfterSaveCase_NoAwait(message) == docText

\* The file after the save case has run up to its first real suspension:
\* when applyContent returns without an edit (or is not called) the handler
\* goes on to `await document.save()` at once and the document text is
\* written; when applyContent awaits workspace.applyEdit nothing is written yet
DiskAfterSaveCase(message) ==
  IF HasStringContent(message)
       /\ normalizeContentForDocument(message.content, docEol) # docText
  THEN diskText
  ELSE docText

\* webview.onDidReceiveMessage
onDidReceiveMessage ==
  /\ toHost # <<>>
  /\ IsCommandMessage(Head(toHost)) => Head(toHost).command # "upload-image"
  /\ toHost' = Tail(toHost)
  /\ LET message == Head(toHost) IN
       CASE message = NullMessage ->
              \* message.command of null throws: the handler's promise rejects
              /\ lastOp' = "hostMessageThrows"
              /\ UNCHANGED <<isApplyingFromWebview, applyEdits, toSurface, diskText>>
         [] IsCommandMessage(message) /\ message.command = "ready" ->
              /\ postDocumentToWebview("init", docText)
              /\ lastOp' = "hostReady"
              /\ UNCHANGED <<isApplyingFromWebview, applyEdits, diskText>>
         [] IsCommandMessage(message) /\ message.command = "edit" ->
              /\ IF HasStringContent(message)
                 THEN applyContent(message.content, "break")
                 ELSE UNCHANGED <<isApplyingFromWebview, applyEdits>>
              /\ lastOp' = "hostEdit"
              /\ UNCHANGED <<toSurface, diskText>>
         [] IsCommandMessage(message) /\ message.command = "save" ->
              /\ IF HasStringContent(message)
                 THEN applyContent(message.content, "save")
                 ELSE UNCHANGED <<isApplyingFromWebview, applyEdits>>
              /\ diskText' = DiskAfterSaveCase(message)
              /\ lastOp' = "hostSave"
              /\ UNCHANGED toSurface
         [] OTHER ->
              /\ lastOp' = "hostDefault"
              /\ UNCHANGED <<isApplyingFromWebview, applyEdits, toSurface, diskText>>
  /\ UNCHANGED <<surfaceVars, docText, docEol, markedSinceApply, snapshotApplied, nEvents, scenario>>

\* index of the oldest applyEdit call the document has not taken yet (0: none)
NextToLand ==
  IF \E i \in 1..Len(applyEdits) : ~applyEdits[i].landed
  THEN CHOOSE i \in 1..Len(applyEdits) :
         /\ ~applyEdits[i].landed
         /\ \A j \in 1..(i - 1) : applyEdits[j].landed
  ELSE 0

\* The document takes the oldest outstanding workspace edit; a change of its
\* text raises onDidChangeTextDocument before the applyEdit promise resolves.
ApplyEditLands ==
  /\ NextToLand # 0
  /\ LET i == NextToLand
         text == applyEdits[i].content IN
       /\ docText' = text
       /\ applyEdits' = [applyEdits EXCEPT ![i].landed = TRUE]
       /\ IF text # docText
          THEN onDidChangeTextDocument(text)
          ELSE UNCHANGED toSurface
  /\ lastOp' = "applyEditLands"
  /\ UNCHANGED <<surfaceVars, docEol, isApplyingFromWebview, diskText, toHost,
                 markedSinceApply, snapshotApplied, nEvents, scenario>>

\* the oldest applyEdit promise resolves and its applyContent runs its finally block
ApplyEditResolves ==
  /\ applyEdits # <<>>
  /\ applyEdits[1].landed
  /\ applyEdits' = Tail(applyEdits)
  /\ isApplyingFromWebview' = ApplyContentFinally
  /\ diskText' = IF applyEdits[1].then = "save" THEN docText ELSE diskText
  /\ lastOp' = "applyEditResolves"
  /\ UNCHANGED <<surfaceVars, docText, docEol, toHost, toSurface,
                 markedSinceApply, snapshotApplied, nEvents, scenario>>

\* the document is changed on the host side by something other than this
\* webview (another editor of the file, a revert, a format command)
ExternalChange(c) ==
  /\ DocTextOf(c, docEol) # docText
  /\ docText' = DocTextOf(c, docEol)
  /\ onDidChangeTextDocument(DocTextOf(c, docEol))
  /\ nEvents' = nEvents + 1
  /\ lastOp' = "externalChange"
  /\ UNCHANGED <<surfaceVars, docEol, isApplyingFromWebview, applyEdits, diskText, toHost,
                 markedSinceApply, snapshotApplied>>

\* onDidChangeConfiguration affecting the extension's namespace
onDidChangeConfiguration ==
  /\ postDocumentToWebview("update", docText)
  /\ nEvents' = nEvents + 1
  /\ lastOp' = "configChange"
  /\ UNCHANGED <<surfaceVars, hostVars, toHost,
                 markedSinceApply, snapshotApplied, scenario>>

onDidChangeActiveColorTheme ==
  /\ toSurface' = Append(toSurface, ThemeMsg)
  /\ nEvents' = nEvents + 1
  /\ lastOp' = "themeChange"
  /\ UNCHANGED <<surfaceVars, hostVars, toHost,
                 markedSinceApply, snapshotApplied, scenario>>

(***************************************************************************)
(* The synchronisation protocol.                                           *)
(***************************************************************************)
Next ==
  \/ markUserInteraction /\ UNCHANGED scenario /\ UNCHANGED uploadVars /\ UNCHANGED <<outlineVars, mermaidVars>>
  \/ \E c \in Texts : nEvents < MaxEvents /\ LocalChange(c) /\ UNCHANGED scenario /\ UNCHANGED uploadVars /\ UNCHANGED <<outlineVars, mermaidVars>>
  \/ nEvents < MaxEvents /\ handleSave /\ UNCHANGED uploadVars /\ UNCHANGED <<outlineVars, mermaidVars>>
  \/ handleMessage /\ UNCHANGED uploadVars /\ UNCHANGED <<outlineVars, mermaidVars>>
  \/ ListenerInSetDocument /\ UNCHANGED uploadVars /\ UNCHANGED <<outlineVars, mermaidVars>>
  \/ \E deferred \in BOOLEAN : SetDocumentReturns(deferred) /\ UNCHANGED uploadVars /\ UNCHANGED <<outlineVars, mermaidVars>>
  \/ nEvents < MaxEvents /\ SetDocumentThrows /\ UNCHANGED uploadVars /\ UNCHANGED <<outlineVars, mermaidVars>>
  \/ DeferredListener /\ UNCHANGED uploadVars /\ UNCHANGED <<outlineVars, mermaidVars>>
  \/ EditorOnInit /\ UNCHANGED uploadVars /\ UNCHANGED <<outlineVars, mermaidVars>>
  \/ onDidReceiveMessage /\ UNCHANGED uploadVars /\ UNCHANGED <<outlineVars, mermaidVars>>
  \/ ApplyEditLands /\ UNCHANGED uploadVars /\ UNCHANGED <<outlineVars, mermaidVars>>
  \/ ApplyEditResolves /\ UNCHANGED uploadVars /\ UNCHANGED <<outlineVars, mermaidVars>>
  \/ \E c \in Texts : nEvents < MaxEvents /\ ExternalChange(c) /\ UNCHANGED scenario /\ UNCHANGED uploadVars /\ UNCHANGED <<outlineVars, mermaidVars>>
  \/ nEvents < MaxEvents /\ onDidChangeConfiguration /\ UNCHANGED uploadVars /\ UNCHANGED <<outlineVars, mermaidVars>>
  \/ nEvents < MaxEvents /\ onDidChangeActiveColorTheme /\ UNCHANGED uploadVars /\ UNCHANGED <<outlineVars, mermaidVars>>

Spec == Init /\ [][Next]_vars


(***************************************************************************)
(* The convergence scenario: from a synchronised session holding a text,   *)
(* one host-side change of the document and one user edit in the editor,   *)
(* in every order and with every order of delivery.                        *)
(***************************************************************************)
ConvergeTexts == Texts \cup { <<"c">> }

ScenarioEntry(kind, text) == [kind |-> kind, text |-> text]

InitConverge ==
  /\ ready = TRUE
  /\ applyingRemote = FALSE
  /\ hasUserInteraction \in BOOLEAN
  /\ pendingRemoteContent = <<>>
  /\ tocRaf = TRUE
  /\ setDocCall = <<>>
  /\ listenerDue = FALSE
  /\ docEol \in Eols
  /\ \E a \in ConvergeTexts :
       /\ docText = DocTextOf(a, docEol)
       /\ diskText = docText
       /\ editorMarkdown = a
       /\ lastSyncedMarkdown \in {a, DocTextOf(a, docEol)}
       /\ scenario = { ScenarioEntry("synced", a) }
  /\ isApplyingFromWebview = FALSE
  /\ applyEdits = <<>>
  /\ toHost = <<>>
  /\ toSurface = <<>>
  /\ lastOp = "init"
  /\ markedSinceApply = hasUserInteraction
  /\ snapshotApplied = TRUE
  /\ nEvents = 0
  /\ NoUploads
  /\ tocItems = <<>>
  /\ assetFiles = <<>>
  /\ NoOutline
  /\ NoPreview

NotYet(kind) == \A e \in scenario : e.kind # kind

\* the text the session was synchronised on
SyncedText == (CHOOSE e \in scenario : e.kind = "synced").text

\* The two changes are concurrent: the user edits a surface that has not taken
\* the host's change, and the document changes on a host that has not taken
\* the user's edit.
NextConverge ==
  \/ markUserInteraction /\ UNCHANGED scenario /\ UNCHANGED uploadVars /\ UNCHANGED <<outlineVars, mermaidVars>>
  \/ \E c \in ConvergeTexts :
       /\ NotYet("local")
       /\ hasUserInteraction
       /\ editorMarkdown = SyncedText
       /\ LocalChange(c)
       /\ scenario' = scenario \cup { ScenarioEntry("local", c) } /\ UNCHANGED uploadVars /\ UNCHANGED <<outlineVars, mermaidVars>>
  \/ \E b \in ConvergeTexts :
       /\ NotYet("external")
       /\ docText = DocTextOf(SyncedText, docEol)
       /\ diskText = docText
       /\ applyEdits = <<>>
       /\ ExternalChange(b)
       /\ scenario' = scenario \cup { ScenarioEntry("external", b) } /\ UNCHANGED uploadVars /\ UNCHANGED <<outlineVars, mermaidVars>>
  \/ handleMessage /\ UNCHANGED uploadVars /\ UNCHANGED <<outlineVars, mermaidVars>>
  \/ ListenerInSetDocument /\ UNCHANGED uploadVars /\ UNCHANGED <<outlineVars, mermaidVars>>
  \/ \E deferred \in BOOLEAN : SetDocumentReturns(deferred) /\ UNCHANGED uploadVars /\ UNCHANGED <<outlineVars, mermaidVars>>
  \/ DeferredListener /\ UNCHANGED uploadVars /\ UNCHANGED <<outlineVars, mermaidVars>>
  \/ onDidReceiveMessage /\ UNCHANGED uploadVars /\ UNCHANGED <<outlineVars, mermaidVars>>
  \/ ApplyEditLands /\ UNCHANGED uploadVars /\ UNCHANGED <<outlineVars, mermaidVars>>
  \/ ApplyEditResolves /\ UNCHANGED uploadVars /\ UNCHANGED <<outlineVars, mermaidVars>>

SpecConverge == InitConverge /\ [][NextConverge]_vars

\* nothing is in flight in either direction and neither side is mid-operation
Quiescent ==
  /\ toHost = <<>>
  /\ toSurface = <<>>
  /\ applyEdits = <<>>
  /\ SurfaceIdle

\* both changes of the scenario have happened, on three pairwise different texts
ConvergenceCase ==
  \E a, b, c \in ConvergeTexts :
    /\ a # b /\ b # c /\ a # c
    /\ scenario = { ScenarioEntry("synced", a), ScenarioEntry("external", b),
                    ScenarioEntry("local", c) }

\* C1: once one host-side change to B and one concurrent user edit to C, made
\* from a synchronised state A, have been delivered in whatever order, the
\* host document equals the surface content up to line endings, and
\* lastSyncedContent is that same value.
C1_Convergence ==
  (ConvergenceCase /\ Quiescent) =>
    /\ EditorSetDocument(docText) = editorMarkdown
    /\ EditorSetDocument(lastSyncedMarkdown) = editorMarkdown


(***************************************************************************)
(* The propagation scenario: from a synchronised session, the user         *)
(* interacts with the editor and then changes its content, while messages  *)
(* of the host arrive in between.                                          *)
(***************************************************************************)
Marked == ScenarioEntry("marked", EmptyContent)

NextPropagate ==
  \/ markUserInteraction /\ scenario' = scenario \cup { Marked } /\ UNCHANGED uploadVars /\ UNCHANGED <<outlineVars, mermaidVars>>
  \/ \E c \in Texts :
       /\ nEvents < MaxEvents
       /\ Marked \in scenario
       /\ LocalChange(c)
       /\ scenario' = scenario \ { Marked } /\ UNCHANGED uploadVars /\ UNCHANGED <<outlineVars, mermaidVars>>
  \/ handleMessage /\ UNCHANGED uploadVars /\ UNCHANGED <<outlineVars, mermaidVars>>
  \/ ListenerInSetDocument /\ UNCHANGED uploadVars /\ UNCHANGED <<outlineVars, mermaidVars>>
  \/ \E deferred \in BOOLEAN : SetDocumentReturns(deferred) /\ UNCHANGED uploadVars /\ UNCHANGED <<outlineVars, mermaidVars>>
  \/ DeferredListener /\ UNCHANGED uploadVars /\ UNCHANGED <<outlineVars, mermaidVars>>
  \/ onDidReceiveMessage /\ UNCHANGED uploadVars /\ UNCHANGED <<outlineVars, mermaidVars>>
  \/ ApplyEditLands /\ UNCHANGED uploadVars /\ UNCHANGED <<outlineVars, mermaidVars>>
  \/ ApplyEditResolves /\ UNCHANGED uploadVars /\ UNCHANGED <<outlineVars, mermaidVars>>
  \/ \E c \in Texts : nEvents < MaxEvents /\ ExternalChange(c) /\ UNCHANGED scenario /\ UNCHANGED uploadVars /\ UNCHANGED <<outlineVars, mermaidVars>>
  \/ nEvents < MaxEvents /\ onDidChangeConfiguration /\ UNCHANGED uploadVars /\ UNCHANGED <<outlineVars, mermaidVars>>
  \/ nEvents < MaxEvents /\ onDidChangeActiveColorTheme /\ UNCHANGED uploadVars /\ UNCHANGED <<outlineVars, mermaidVars>>

SpecPropagate == InitConverge /\ [][NextPropagate]_vars

(***************************************************************************)
(* Claims.                                                                 *)
(***************************************************************************)
HasEdit(queue) == \E i \in 1..Len(queue) : queue[i].command = "edit"

\* the step is a run of the editor's change notification (the update listener)
NotificationStep ==
  lastOp' \in {"localChange", "listenerInSetDocument", "deferredListener"}

\* the step handles an `update` message of the host
ApplyRemoteStep ==
  lastOp' \in {"applyRemotePending", "applyRemoteEqual", "applyRemoteReplace"}

\* C2: the surface emits no `edit` before the first snapshot of the host has
\* been applied to the editor, so the host document is never overwritten by
\* content typed before initialisation.
C2_NoEditBeforeInit ==
  ~snapshotApplied =>
    /\ ~HasEdit(toHost)
    /\ applyEdits = <<>>

\* C3: a change notification that fires while applyingRemote is true emits no
\* `edit` and leaves lastSyncedContent alone.
C3_EchoSuppression ==
  [][ (applyingRemote /\ NotificationStep) =>
        (toHost' = toHost /\ lastSyncedMarkdown' = lastSyncedMarkdown) ]_vars

\* the notification ran inside setDocument with the flag raised, in a state
\* where the user had interacted and the content differed from the marker
C3_Witness ==
  /\ lastOp = "listenerInSetDocument"
  /\ applyingRemote
  /\ hasUserInteraction
  /\ editorMarkdown # lastSyncedMarkdown

\* C4: once an applyRemote has completed, a change notification that no
\* markUserInteraction() call precedes emits no `edit`, whatever the content.
C4_NoEditWithoutInteraction ==
  [][ (snapshotApplied /\ ~markedSinceApply /\ NotificationStep) => toHost' = toHost ]_vars

\* a programmatic mutation after a completed applyRemote left the editor
\* different from the marker, and nothing was sent
C4_Witness ==
  /\ lastOp = "localChange"
  /\ snapshotApplied
  /\ ~markedSinceApply
  /\ ~applyingRemote
  /\ editorMarkdown # lastSyncedMarkdown
  /\ ~HasEdit(toHost)

\* C5: with the editor ready, an applyRemote(s) that immediately follows a
\* completed applyRemote(s) of the same snapshot content replaces nothing in
\* the editor and schedules no outline refresh.
C5_IdempotentApply ==
  [][ ( /\ lastOp \in {"applyRemoteApplied", "applyRemoteEqual"}
        /\ SurfaceIdle
        /\ toSurface # <<>>
        /\ Head(toSurface).command = "update"
        /\ Head(toSurface).content = lastSyncedMarkdown
        /\ ApplyRemoteStep )
      => (setDocCall' = <<>> /\ editorMarkdown' = editorMarkdown /\ tocRaf' = tocRaf) ]_vars

\* C6: right after a remote update has been applied, on the direct path and on
\* the deferred one, the surface content re-projected to the document's line
\* endings is the snapshot content, and so is lastSyncedContent.
C6_AppliedSnapshot ==
  [][ /\ (lastOp' \in {"applyRemoteApplied", "onInitApplied"} =>
            /\ DocTextOf(editorMarkdown', docEol) = setDocCall[1].markdown
            /\ lastSyncedMarkdown' = setDocCall[1].markdown)
      /\ (lastOp' = "applyRemoteEqual" =>
            /\ DocTextOf(editorMarkdown', docEol) = Head(toSurface).content
            /\ lastSyncedMarkdown' = Head(toSurface).content) ]_vars

\* the deferred application of a CRLF snapshot with a line break has completed
C6_Witness ==
  /\ lastOp = "onInitApplied"
  /\ docEol = "CRLF"
  /\ editorMarkdown = <<"a", "LF", "b">>
  /\ lastSyncedMarkdown = <<"a", "CR", "LF", "b">>

\* C7: a save request, in whatever state of the echo guard, emits exactly one
\* `save` carrying the current surface content and sets lastSyncedContent to it.
C7_SaveNotSuppressible ==
  [][ lastOp' = "handleSave" =>
        /\ toHost' = Append(toHost, SaveMsg(editorMarkdown))
        /\ lastSyncedMarkdown' = editorMarkdown
        /\ editorMarkdown' = editorMarkdown ]_vars

\* a save went out although no user interaction was recorded and the
\* applyingRemote flag was up
C7_Witness ==
  /\ lastOp = "handleSave"
  /\ ~hasUserInteraction
  /\ applyingRemote
  /\ toHost # <<>>
  /\ toHost[Len(toHost)] = SaveMsg(editorMarkdown)

\* C8: after markUserInteraction(), the change notification that finds the
\* surface content different from lastSyncedContent emits an `edit` with it
\* and records it, whatever messages of the host were handled in between.
C8_UserChangePropagated ==
  [][ ( /\ Marked \in scenario
        /\ lastOp' = "localChange"
        /\ editorMarkdown' # lastSyncedMarkdown )
      => ( /\ toHost' = Append(toHost, EditMsg(editorMarkdown'))
           /\ lastSyncedMarkdown' = editorMarkdown' ) ]_vars

\* C9: hasLocalUserInteraction, once set, stays set until a remote update
\* replaces the surface content (at once, or stored for the editor that is
\* not ready yet); an applyRemote of the content the surface already holds
\* changes lastSyncedContent only.
C9_InteractionLatched ==
  [][ /\ ((hasUserInteraction /\ ~hasUserInteraction') =>
            lastOp' \in {"applyRemoteReplace", "applyRemotePending"})
      /\ (lastOp' = "applyRemoteEqual" =>
            UNCHANGED <<hasUserInteraction, applyingRemote, editorMarkdown>>) ]_vars

\* C10: the document change the host makes for an `edit` or `save` of the
\* surface never sends an `update` back to the surface.
C10_NoHostEcho ==
  [][ lastOp' = "applyEditLands" => toSurface' = toSurface ]_vars

\* C11: no message storm. A user content change sends at most one `edit`; a
\* host-side change of the document sends exactly one `update`; no step of
\* the host's handling of an `edit` sends an `update`; no step of the
\* surface's handling of an `update` sends an `edit`.
C11_NoMessageStorm ==
  [][ /\ (lastOp' = "localChange" =>
            \/ toHost' = toHost
            \/ toHost' = Append(toHost, EditMsg(editorMarkdown')))
      /\ (lastOp' = "externalChange" =>
            toSurface' = Append(toSurface, UpdateMsg("update", docText')))
      /\ (lastOp' \in {"hostEdit", "applyEditLands", "applyEditResolves"} =>
            toSurface' = toSurface)
      /\ (lastOp' \in {"applyRemotePending", "applyRemoteEqual", "applyRemoteReplace",
                       "listenerInSetDocument", "applyRemoteApplied", "deferredListener"} =>
            toHost' = toHost) ]_vars

(***************************************************************************)
(* Host: image upload (part_000:116-179, 355-404).                         *)
(*                                                                         *)
(* A requestId is a record [kind, val]; a dataBase64 field is a record     *)
(* [kind, chars, wellFormed, bytes]: the length of the string, whether     *)
(* what follows the data-URI comma matches /^[\w+/]+=*$/, and the length   *)
(* of the buffer Buffer.from(raw, 'base64') yields.  A file name is the    *)
(* tuple of the pieces the template literal joins.                         *)
(***************************************************************************)
\* the loop bound of createUniqueImageFilePath
ProbeLimit == 1000

\* MAX_SIZE of saveImageToAssets
MAX_SIZE == 10485760

StringId(val) == [kind |-> "string", val |-> val]
MissingId == [kind |-> "missing", val |-> ""]
NumberId == [kind |-> "number", val |-> "7"]

StringData(chars, wellFormed, bytes) ==
  [kind |-> "string", chars |-> chars, wellFormed |-> wellFormed, bytes |-> bytes]
MissingData == [kind |-> "missing", chars |-> 0, wellFormed |-> FALSE, bytes |-> 0]
NumberData == [kind |-> "number", chars |-> 0, wellFormed |-> FALSE, bytes |-> 0]

\* a small image
GoodData == StringData(4, TRUE, 3)

\* the error messages, as the pieces they are made of
MissingRequestIdError == <<"Missing requestId.">>
InvalidImageDataError == <<"Invalid image data.">>
InvalidBase64Error == <<"Invalid base64 image data.">>
EmptyImageError == <<"Image data is empty. Save failed.">>
TooLargeError == <<"Image exceeds the ", "10 MB", " size limit (got ", "size", " MB).">>
ExhaustedError == <<"Could not generate a unique image filename. Please try again.">>
FsError == <<"EACCES: permission denied">>
NoError == <<>>
NoUrl == <<>>

UploadImageMsg(requestId, dataBase64) ==
  [command |-> "upload-image", requestId |-> requestId, dataBase64 |-> dataBase64]

UploadImageResultMsg(requestId, ok, url, error) ==
  [command |-> "upload-image-result", requestId |-> requestId, ok |-> ok,
   url |-> url, error |-> error]

\* the file name with the suffix put on the first candidate too
CandidateName_AlwaysSuffixed(baseName, stamp, index, extension) ==
  <<baseName, "-", stamp, "-" \o ToString(index), extension>>

\* `${baseName}-${stamp}${suffix}${extension}`
CandidateName(baseName, stamp, index, extension) ==
  <<baseName, "-", stamp, IF index = 0 THEN "" ELSE "-" \o ToString(index), extension>>

\* payload.fileName: a string of characters, or undefined
FileName(text) == [kind |-> "string", text |-> text]
MissingFileName == [kind |-> "missing", text |-> <<>>]

\* the characters of a string put together again, as a template literal does
RECURSIVE Join(_)
Join(chars) == IF chars = <<>> THEN "" ELSE Head(chars) \o Join(Tail(chars))

\* the text without its leading and trailing characters of the set
StripEdges(text, set) ==
  LET inner == { i \in 1..Len(text) : text[i] \notin set } IN
  IF inner = {} THEN <<>>
  ELSE SubSeq(text, CHOOSE i \in inner : \A j \in inner : i <= j,
                    CHOOSE i \in inner : \A j \in inner : i >= j)

\* the text without its trailing characters of the set
StripEnd(text, set) ==
  LET inner == { i \in 1..Len(text) : text[i] \notin set } IN
  IF inner = {} THEN <<>>
  ELSE SubSeq(text, 1, CHOOSE i \in inner : \A j \in inner : i >= j)

\* 1-based index of the last occurrence of the character, 0 when there is none
LastIndexOf(text, char) ==
  LET at == { i \in 1..Len(text) : text[i] = char } IN
  IF at = {} THEN 0 ELSE CHOOSE i \in at : \A j \in at : i >= j

\* path.parse(fileName).base (POSIX): the part after the last separator,
\* trailing separators put aside
PathBase(text) ==
  LET path == StripEnd(text, {"/"}) IN
  SubSeq(path, LastIndexOf(path, "/") + 1, Len(path))

\* 1-based index of the dot that starts the extension of a base name, 0 when
\* it has no extension: a leading dot and the name ".." start none
ExtensionDot(base) ==
  IF LastIndexOf(base, ".") <= 1 \/ base = <<".", ".">> THEN 0 ELSE LastIndexOf(base, ".")

\* path.parse(fileName).name
PathName(text) ==
  LET base == PathBase(text) IN
  IF ExtensionDot(base) = 0 THEN base ELSE SubSeq(base, 1, ExtensionDot(base) - 1)

\* String.prototype.toLowerCase, on the characters drawn
ToLowerCase(text) == [i \in 1..Len(text) |-> IF text[i] = "A" THEN "a" ELSE text[i]]

\* the characters /[^a-z0-9\-_]+/ does not match, among those drawn and
\* those of 'image'
BaseNameChars == {"a", "e", "g", "i", "m", "1", "-", "_"}

\* text.replace(/[^...]+/g, '-') for the class `keep`: every run of
\* characters outside keep becomes one '-'
RECURSIVE ReplaceRunsFrom(_, _, _)
ReplaceRunsFrom(text, keep, i) ==
  IF i > Len(text) THEN <<>>
  ELSE IF text[i] \in keep THEN <<text[i]>> \o ReplaceRunsFrom(text, keep, i + 1)
  ELSE IF i > 1 /\ text[i - 1] \notin keep THEN ReplaceRunsFrom(text, keep, i + 1)
  ELSE <<"-">> \o ReplaceRunsFrom(text, keep, i + 1)

\* the second replace left out
CollapseDashes_Kept(text) == text

\* text.replace(/-+/g, '-')
CollapseDashes(text) ==
  ReplaceRunsFrom(text, { text[i] : i \in 1..Len(text) } \ {"-"}, 1)

\* 'image' as characters
ImageChars == <<"i", "m", "a", "g", "e">>

\* safeImageBaseName, as the characters of the string it returns
safeImageBaseName(fileName) ==
  LET original == IF fileName.kind = "string" /\ fileName.text # <<>>
                  THEN PathName(fileName.text) ELSE ImageChars
      lowered == ToLowerCase(StripEdges(original, {" "}))
      replaced == CollapseDashes(ReplaceRunsFrom(lowered, BaseNameChars, 1))
      normalized == StripEdges(replaced, {"-", "_", "."})
  IN IF normalized = <<>> THEN ImageChars ELSE normalized

\* message.fileName as the upload-image handler passes it on
FileNameOf(message) ==
  IF "fileName" \in DOMAIN message THEN message.fileName ELSE MissingFileName

\* safeImageBaseName and inferImageExtension of a pasted image without a name
BaseName == "image"
Extension == ".png"

\* inferImageExtension for a message without mimeType: the lower-cased
\* extension of the file name, '.png' when it has none
inferImageExtension(fileName) ==
  LET base == PathBase(fileName.text) IN
  IF fileName.kind = "string" /\ ExtensionDot(base) # 0
  THEN Join(ToLowerCase(SubSeq(base, ExtensionDot(base), Len(base))))
  ELSE Extension

\* the seconds of the clock at which createUniqueImageFilePath may run
Stamps == {"20240101-000000", "20240101-000001"}

\* path.relative(parentDir, absolutePath) with '/' separators
UrlOf(fileName) == <<"assets/">> \o fileName

\* the result always carrying the empty id
RequestIdOrEmpty_Blank(requestId) == StringId("")

\* requestId ?? ''
RequestIdOrEmpty(requestId) ==
  IF requestId.kind = "missing" THEN StringId("") ELSE requestId

\* !requestId || typeof requestId !== 'string'
BadRequestId(requestId) == requestId.kind # "string" \/ requestId.val = ""

\* !message.dataBase64 || typeof message.dataBase64 !== 'string'
BadDataBase64(data) == data.kind # "string" \/ data.chars = 0

\* the error saveImageToAssets throws for a payload, <<>> when it throws none
ValidationError(data) ==
  IF ~data.wellFormed THEN InvalidBase64Error
  ELSE IF data.bytes = 0 THEN EmptyImageError
  ELSE IF data.bytes > MAX_SIZE THEN TooLargeError
  ELSE NoError

\* history entries
Received(message) ==
  [event |-> "received", requestId |-> message.requestId, data |-> message.dataBase64,
   ok |-> FALSE, url |-> NoUrl]
Answered(payload) ==
  [event |-> "answered", requestId |-> payload.requestId, data |-> MissingData,
   ok |-> payload.ok, url |-> payload.url]

\* postResult: the message goes to the webview
postResult(payload) ==
  /\ toSurface' = Append(toSurface, payload)
  /\ hostLog' = Append(hostLog, Answered(payload))

\* the catch block of the handler lets the error escape
CaughtUploadError_Escapes(job, error) ==
  /\ hostJobs' = hostJobs \ {job}
  /\ UNCHANGED <<toSurface, hostLog>>

\* the catch block of the upload-image handler
CaughtUploadError(job, error) ==
  /\ hostJobs' = hostJobs \ {job}
  /\ postResult(UploadImageResultMsg(StringId(job.requestId), FALSE, NoUrl, error))

\* webview.onDidReceiveMessage, case 'upload-image', up to its first await
onDidReceiveUploadImage ==
  /\ toHost # <<>>
  /\ Head(toHost).command = "upload-image"
  /\ toHost' = Tail(toHost)
  /\ LET message == Head(toHost)
         requestId == message.requestId
         received == Received(message)
         missingId == UploadImageResultMsg(RequestIdOrEmpty(requestId), FALSE, NoUrl,
                                           MissingRequestIdError)
         invalidData == UploadImageResultMsg(requestId, FALSE, NoUrl, InvalidImageDataError)
     IN IF BadRequestId(requestId)
        THEN /\ toSurface' = Append(toSurface, missingId)
             /\ hostLog' = hostLog \o <<received, Answered(missingId)>>
             /\ UNCHANGED hostJobs
        ELSE IF BadDataBase64(message.dataBase64)
        THEN /\ toSurface' = Append(toSurface, invalidData)
             /\ hostLog' = hostLog \o <<received, Answered(invalidData)>>
             /\ UNCHANGED hostJobs
        ELSE /\ hostJobs' = hostJobs \cup
                   { [requestId |-> requestId.val, data |-> message.dataBase64,
                      fileName |-> FileNameOf(message),
                      pc |-> "mkdir", stamp |-> "", index |-> 0, path |-> <<>>] }
             /\ hostLog' = Append(hostLog, received)
             /\ UNCHANGED toSurface
  /\ lastOp' = "hostUploadImage"
  /\ UNCHANGED <<surfaceVars, hostVars, markedSinceApply, snapshotApplied, scenario, nEvents,
                 mounted, tocItems, uploadResolvers, uploadTimers, uploadOps, assetFiles>>

\* await fs.mkdir settles; createUniqueImageFilePath reads the clock and probes
MkdirSettles(job, fsOk, stamp) ==
  /\ job \in hostJobs
  /\ job.pc = "mkdir"
  /\ IF fsOk
     THEN /\ hostJobs' = (hostJobs \ {job}) \cup
                          { [job EXCEPT !.pc = "access", !.stamp = stamp, !.index = 0] }
          /\ UNCHANGED <<toSurface, hostLog>>
     ELSE CaughtUploadError(job, FsError)
  /\ lastOp' = "mkdirSettles"
  /\ UNCHANGED <<surfaceVars, hostVars, toHost, markedSinceApply, snapshotApplied, scenario,
                 nEvents, mounted, tocItems, uploadResolvers, uploadTimers, uploadOps,
                 assetFiles>>

\* await fs.access(candidate) settles: the loop of createUniqueImageFilePath
\* goes on, throws, or returns the candidate, and saveImageToAssets runs up to
\* its await of fs.writeFile
AccessSettles(job) ==
  /\ job \in hostJobs
  /\ job.pc = "access"
  /\ LET candidate == CandidateName(Join(safeImageBaseName(job.fileName)), job.stamp,
                                  job.index, inferImageExtension(job.fileName)) IN
       IF candidate \in DOMAIN assetFiles
       THEN IF job.index + 1 < ProbeLimit
            THEN /\ hostJobs' = (hostJobs \ {job}) \cup
                                  { [job EXCEPT !.index = job.index + 1] }
                 /\ UNCHANGED <<toSurface, hostLog>>
            ELSE CaughtUploadError(job, ExhaustedError)
       ELSE IF ValidationError(job.data) # NoError
            THEN CaughtUploadError(job, ValidationError(job.data))
            ELSE /\ hostJobs' = (hostJobs \ {job}) \cup
                                  { [job EXCEPT !.pc = "writeFile", !.path = candidate] }
                 /\ UNCHANGED <<toSurface, hostLog>>
  /\ lastOp' = "accessSettles"
  /\ UNCHANGED <<surfaceVars, hostVars, toHost, markedSinceApply, snapshotApplied, scenario,
                 nEvents, mounted, tocItems, uploadResolvers, uploadTimers, uploadOps,
                 assetFiles>>

\* await fs.writeFile(absolutePath, buffer) settles
WriteFileSettles(job, fsOk) ==
  /\ job \in hostJobs
  /\ job.pc = "writeFile"
  /\ IF fsOk
     THEN /\ assetFiles' = [name \in DOMAIN assetFiles \cup {job.path} |->
                              IF name = job.path THEN job.requestId ELSE assetFiles[name]]
          /\ hostJobs' = hostJobs \ {job}
          /\ postResult(UploadImageResultMsg(StringId(job.requestId), TRUE,
                                             UrlOf(job.path), NoError))
     ELSE /\ CaughtUploadError(job, FsError)
          /\ UNCHANGED assetFiles
  /\ lastOp' = "writeFileSettles"
  /\ UNCHANGED <<surfaceVars, hostVars, toHost, markedSinceApply, snapshotApplied, scenario,
                 nEvents, mounted, tocItems, uploadResolvers, uploadTimers, uploadOps>>

(***************************************************************************)
(* The host handling one upload-image message, for every shape of the      *)
(* message and several states of the assets directory.                     *)
(***************************************************************************)
\* the requestId fields a message may carry
HostRequestIds == { StringId("r1"), StringId(""), MissingId, NumberId }

\* the dataBase64 fields a message may carry
HostPayloads ==
  { MissingData, NumberData, StringData(0, FALSE, 0),
    StringData(4, FALSE, 0), StringData(4, TRUE, 0), GoodData,
    StringData(13981014, TRUE, MAX_SIZE), StringData(13981016, TRUE, MAX_SIZE + 1) }

\* the candidates of the first clock second that exist before the upload
ExistingIndexSets ==
  { {}, {0}, {1}, {0, 1}, {0, 2},
    0..(ProbeLimit - 1), 0..(ProbeLimit - 2), 1..(ProbeLimit - 1) }

ExistingFiles(indexes) ==
  [name \in { CandidateName(BaseName, "20240101-000000", k, Extension) : k \in indexes }
     |-> "existing"]

\* the surface of a synchronised session on the text "a", nothing under way
IdleSession ==
  /\ ready = TRUE
  /\ applyingRemote = FALSE
  /\ hasUserInteraction = FALSE
  /\ lastSyncedMarkdown = <<"a">>
  /\ pendingRemoteContent = <<>>
  /\ tocRaf = FALSE
  /\ editorMarkdown = <<"a">>
  /\ setDocCall = <<>>
  /\ listenerDue = FALSE
  /\ isApplyingFromWebview = FALSE
  /\ applyEdits = <<>>
  /\ toSurface = <<>>
  /\ lastOp = "init"
  /\ markedSinceApply = FALSE
  /\ snapshotApplied = TRUE
  /\ scenario = {}
  /\ nEvents = 0
  /\ NoUploads
  /\ tocItems = <<>>

InitHostUpload ==
  /\ IdleSession
  /\ docText = <<"a">>
  /\ diskText = docText
  /\ docEol = "LF"
  /\ \E requestId \in HostRequestIds, data \in HostPayloads :
       toHost = <<UploadImageMsg(requestId, data)>>
  /\ \E indexes \in ExistingIndexSets : assetFiles = ExistingFiles(indexes)
  /\ NoOutline
  /\ NoPreview

NextHostUpload ==
  \/ onDidReceiveUploadImage /\ UNCHANGED <<outlineVars, mermaidVars>>
  \/ \E job \in hostJobs, fsOk \in BOOLEAN, stamp \in Stamps : MkdirSettles(job, fsOk, stamp) /\ UNCHANGED <<outlineVars, mermaidVars>>
  \/ \E job \in hostJobs : AccessSettles(job) /\ UNCHANGED <<outlineVars, mermaidVars>>
  \/ \E job \in hostJobs, fsOk \in BOOLEAN : WriteFileSettles(job, fsOk) /\ UNCHANGED <<outlineVars, mermaidVars>>

SpecHostUpload == InitHostUpload /\ [][NextHostUpload]_vars

IsUploadResult(message) == message.command = "upload-image-result"

\* the upload results in a queue, oldest first
UploadResults(queue) == SelectSeq(queue, IsUploadResult)

\* the host is still handling the upload-image message that carried requestId
HostHandling(requestId) ==
  /\ ~BadRequestId(requestId)
  /\ \E job \in hostJobs : job.requestId = requestId.val

C17_UploadFailureAnswered ==
  \A i \in 1..Len(hostLog) :
    ( /\ hostLog[i].event = "received"
      /\ ~BadRequestId(hostLog[i].requestId)
      /\ ~BadDataBase64(hostLog[i].data)
      /\ ~HostHandling(hostLog[i].requestId) )
    => LET data == hostLog[i].data
           results == UploadResults(toSurface)
       IN /\ Len(results) = 1
          /\ (~results[1].ok => results[1].error # NoError /\ results[1].url = NoUrl)
          /\ (ValidationError(data) # NoError =>
                /\ ~results[1].ok
                /\ \A name \in DOMAIN assetFiles : assetFiles[name] = "existing")
          /\ ( ( /\ data.wellFormed
                 /\ data.bytes > MAX_SIZE
                 /\ results[1].error \notin {FsError, ExhaustedError} )
               => \E k \in 1..Len(results[1].error) : results[1].error[k] = "10 MB" )
          /\ (results[1].ok =>
                \E name \in DOMAIN assetFiles :
                  /\ results[1].url = UrlOf(name)
                  /\ assetFiles[name] = hostLog[i].requestId.val)

\* an 10 MiB + 1 byte payload was refused with the size message, nothing written
C17_Witness ==
  /\ hostLog # <<>>
  /\ hostLog[1].data.bytes = MAX_SIZE + 1
  /\ hostJobs = {}
  /\ UploadResults(toSurface) =
       <<UploadImageResultMsg(StringId("r1"), FALSE, NoUrl, TooLargeError)>>
  /\ assetFiles = ExistingFiles({0})

\* C19: createUniqueImageFilePath probes `<base>-<stamp><ext>` first and then
\* `<base>-<stamp>-<k><ext>` for k = 1, 2, ...: every candidate before the
\* one under test exists, the path returned is the first candidate that does
\* not exist, at most 1000 candidates are tried, and the exhaustion error is
\* raised only when all 1000 exist.
C19_UniqueNameProbing ==
  LET Name(stamp, k) ==
        IF k = 0 THEN <<BaseName, "-", stamp, "", Extension>>
        ELSE <<BaseName, "-", stamp, "-" \o ToString(k), Extension>>
  IN /\ \A job \in hostJobs :
          /\ job.pc \in {"access", "writeFile"} =>
               /\ job.index < ProbeLimit
               /\ \A k \in 0..(job.index - 1) : Name(job.stamp, k) \in DOMAIN assetFiles
          /\ job.pc = "writeFile" =>
               /\ job.path = Name(job.stamp, job.index)
               /\ job.path \notin DOMAIN assetFiles
     /\ \A j \in 1..Len(toSurface) :
          (IsUploadResult(toSurface[j]) /\ toSurface[j].error = ExhaustedError) =>
            \E stamp \in Stamps :
              \A k \in 0..(ProbeLimit - 1) : Name(stamp, k) \in DOMAIN assetFiles

\* with only image-20240101-000000.png present, image-20240101-000000-1.png is returned
C19_Witness ==
  /\ DOMAIN assetFiles = { <<"image", "-", "20240101-000000", "", ".png">> }
  /\ \E job \in hostJobs :
       /\ job.pc = "writeFile"
       /\ job.path = <<"image", "-", "20240101-000000", "-1", ".png">>

\* all 1000 candidates exist and the upload was refused with the exhaustion error
C19_WitnessExhausted ==
  /\ Cardinality(DOMAIN assetFiles) = ProbeLimit
  /\ UploadResults(toSurface) =
       <<UploadImageResultMsg(StringId("r1"), FALSE, NoUrl, ExhaustedError)>>

(***************************************************************************)
(* Normalisation: the host receives an `edit` whose content is any string  *)
(* of ordinary characters, \r and \n, for a document of either end-of-line *)
(* convention.                                                             *)
(***************************************************************************)
RECURSIVE RawContents(_)
\* the strings over {a, \r, \n} of length at most n
RawContents(n) ==
  IF n = 0 THEN { <<>> }
  ELSE LET shorter == RawContents(n - 1) IN
       shorter \cup { Append(s, ch) : s \in shorter, ch \in {"a", "CR", "LF"} }

InitNormalize ==
  /\ IdleSession
  /\ docEol \in Eols
  /\ docText = <<"a">>
  /\ diskText = docText
  /\ assetFiles = <<>>
  /\ \E x \in RawContents(MaxContentLen) : toHost = <<EditMsg(x)>>
  /\ NoOutline
  /\ NoPreview

NextNormalize ==
  \/ onDidReceiveMessage /\ UNCHANGED uploadVars /\ UNCHANGED <<outlineVars, mermaidVars>>
  \/ ApplyEditLands /\ UNCHANGED uploadVars /\ UNCHANGED <<outlineVars, mermaidVars>>
  \/ ApplyEditResolves /\ UNCHANGED uploadVars /\ UNCHANGED <<outlineVars, mermaidVars>>

SpecNormalize == InitNormalize /\ [][NextNormalize]_vars

\* C20: normalizeContentForDocument is idempotent: normalising for the
\* document's end-of-line convention what was already normalised for it
\* changes nothing, for every content of ordinary characters, \r and \n.
C20_NormalizeIdempotent ==
  [][ lastOp' = "hostEdit" =>
        LET x == Head(toHost).content
            once == normalizeContentForDocument(x, docEol)
        IN normalizeContentForDocument(once, docEol) = once ]_vars

\* an edit with mixed and lone \r endings was normalised for a CRLF document
C20_Witness ==
  /\ lastOp = "hostEdit"
  /\ docEol = "CRLF"
  /\ applyEdits = <<[content |-> <<"CR", "LF", "a", "CR", "LF", "CR", "LF">>, landed |-> FALSE,
                   then |-> "break"]>>

(***************************************************************************)
(* Surface: correlated image upload (main.tsx:384-413, 639-652, 671-677)   *)
(* and the outline pass that re-runs the message effect (196-243, 291-350, *)
(* 627-678).                                                               *)
(***************************************************************************)
\* resolve or reject is called on the promise of an upload: the first call settles it
Settle(op, outcome) ==
  [stage |-> "settled", settles |-> op.settles + 1,
   outcome |-> IF op.settles = 0 THEN outcome ELSE op.outcome]

\* the payload fileToBase64 produces for a small image
SurfacePayloads == { GoodData }

\* handleImageUpload up to its await of fileToBase64
handleImageUpload(requestId) ==
  /\ mounted
  /\ SurfaceIdle
  /\ uploadOps[requestId].stage = "none"
  /\ uploadOps' = [uploadOps EXCEPT ![requestId].stage = "reading"]
  /\ nEvents' = nEvents + 1
  /\ lastOp' = "handleImageUpload"
  /\ UNCHANGED <<surfaceVars, hostVars, toHost, toSurface, markedSinceApply, snapshotApplied,
                 scenario, mounted, tocItems, uploadResolvers, uploadTimers,
                 hostJobs, assetFiles, hostLog>>

\* fileToBase64 settles; on success the promise executor arms the timer,
\* registers the resolver and posts upload-image
FileReadSettles(requestId, readOk, dataBase64) ==
  /\ uploadOps[requestId].stage = "reading"
  /\ IF readOk
     THEN /\ uploadTimers' = uploadTimers \cup {requestId}
          /\ uploadResolvers' = uploadResolvers \cup {requestId}
          /\ uploadOps' = [uploadOps EXCEPT ![requestId].stage = "pending"]
          /\ toHost' = Append(toHost, UploadImageMsg(StringId(requestId), dataBase64))
     ELSE /\ uploadOps' = [uploadOps EXCEPT ![requestId] = Settle(@, "readError")]
          /\ UNCHANGED <<uploadTimers, uploadResolvers, toHost>>
  /\ lastOp' = "fileReadSettles"
  /\ UNCHANGED <<surfaceVars, hostVars, toSurface, markedSinceApply, snapshotApplied,
                 scenario, nEvents, mounted, tocItems, hostJobs, assetFiles, hostLog>>

\* the timers left armed when the timeout callback of requestId has run
TimersAfterTimeout(requestId) == uploadTimers \ {requestId}

\* the table after the timeout callback forgot to delete its entry
ResolversAfterTimeout_Kept(requestId) == uploadResolvers

\* the table after the timeout callback: uploadResolversRef.current.delete(requestId)
ResolversAfterTimeout(requestId) == uploadResolvers \ {requestId}

\* the 30 s timer of an upload fires
UploadTimeout(requestId) ==
  /\ requestId \in uploadTimers
  /\ uploadTimers' = TimersAfterTimeout(requestId)
  /\ uploadResolvers' = ResolversAfterTimeout(requestId)
  /\ uploadOps' = [uploadOps EXCEPT ![requestId] = Settle(@, "timedOut")]
  /\ lastOp' = "uploadTimeout"
  /\ UNCHANGED <<surfaceVars, hostVars, toHost, toSurface, markedSinceApply, snapshotApplied,
                 scenario, nEvents, mounted, tocItems, hostJobs, assetFiles, hostLog>>

\* a resolver is found for any result that carries a string id
ResolverFor_Any(message) == message.requestId.kind = "string"

\* uploadResolversRef.current.get(message.requestId) finds a resolver
ResolverFor(message) ==
  /\ message.requestId.kind = "string"
  /\ message.requestId.val \in uploadResolvers

\* window 'message' listener, command upload-image-result
handleUploadImageResult ==
  /\ mounted
  /\ SurfaceIdle
  /\ toSurface # <<>>
  /\ Head(toSurface).command = "upload-image-result"
  /\ toSurface' = Tail(toSurface)
  /\ LET message == Head(toSurface)
         known == ResolverFor(message)
         requestId == message.requestId.val
     IN IF ~known
        THEN /\ lastOp' = "uploadResultIgnored"
             /\ UNCHANGED <<uploadResolvers, uploadTimers, uploadOps>>
        ELSE /\ uploadResolvers' = uploadResolvers \ {requestId}
             /\ uploadTimers' = uploadTimers \ {requestId}
             /\ uploadOps' = [uploadOps EXCEPT ![requestId] =
                                Settle(@, IF message.ok /\ message.url # NoUrl
                                          THEN "resolved" ELSE "failed")]
             /\ lastOp' = "uploadResultHandled"
  /\ UNCHANGED <<surfaceVars, hostVars, toHost, markedSinceApply, snapshotApplied,
                 scenario, nEvents, mounted, tocItems, hostJobs, assetFiles, hostLog>>

\* cleanup of the message effect: every registered resolver is rejected
\* (which clears its timer) and the table is cleared
MessageEffectCleanup ==
  /\ uploadOps' = [r \in RequestIds |->
                     IF r \in uploadResolvers THEN Settle(uploadOps[r], "closed")
                     ELSE uploadOps[r]]
  /\ uploadTimers' = uploadTimers \ uploadResolvers
  /\ uploadResolvers' = {}

\* the outline stored after a refresh pass is a new array: every callback
\* depending on tocItems, down to setEditorMarkdown, is rebuilt (289-350) and
\* the message effect, which depends on setEditorMarkdown (678), runs again
OutlineRebuilt_Always(nextItems) == TRUE
OutlineRebuilt(nextItems) == ~isSameToc(tocItems, nextItems)

\* the animation frame of scheduleTocSync: updateTocFromDom, then React
\* re-runs the effects whose dependencies changed
TocRafFires ==
  /\ mounted
  /\ SurfaceIdle
  /\ tocRaf
  /\ tocRaf' = FALSE
  /\ LET nextItems == NextTocItems(editorMarkdown) IN
       IF OutlineRebuilt(nextItems)
       THEN /\ tocItems' = nextItems
            /\ MessageEffectCleanup
            /\ toHost' = Append(toHost, ReadyMsg)
       ELSE UNCHANGED <<tocItems, uploadOps, uploadTimers, uploadResolvers, toHost>>
  /\ lastOp' = "tocRafFires"
  /\ UNCHANGED <<ready, applyingRemote, hasUserInteraction, lastSyncedMarkdown,
                 pendingRemoteContent, editorMarkdown, setDocCall, listenerDue,
                 hostVars, toSurface, markedSinceApply, snapshotApplied, scenario, nEvents,
                 mounted, hostJobs, assetFiles, hostLog>>

\* EditorApp unmounts: the cleanup of the message effect runs (671-677); a
\* further run of the same cleanup finds the table empty
Teardown ==
  /\ mounted' = FALSE
  /\ MessageEffectCleanup
  /\ nEvents' = nEvents + 1
  /\ lastOp' = "teardown"
  /\ UNCHANGED <<surfaceVars, hostVars, toHost, toSurface, markedSinceApply, snapshotApplied,
                 scenario, tocItems, hostJobs, assetFiles, hostLog>>

\* texts whose outlines differ
OutlineTexts == { <<"a">>, <<"#", "a">> }

InitUpload ==
  /\ IdleSession
  /\ docText = <<"a">>
  /\ diskText = docText
  /\ docEol = "LF"
  /\ toHost = <<>>
  /\ assetFiles = ExistingFiles({0})
  /\ NoOutline
  /\ NoPreview

NextUpload ==
  \/ \E r \in RequestIds : nEvents < MaxEvents /\ handleImageUpload(r) /\ UNCHANGED <<outlineVars, mermaidVars>>
  \/ \E r \in RequestIds, readOk \in BOOLEAN, data \in SurfacePayloads :
       FileReadSettles(r, readOk, data) /\ UNCHANGED <<outlineVars, mermaidVars>>
  \/ \E r \in RequestIds : UploadTimeout(r) /\ UNCHANGED <<outlineVars, mermaidVars>>
  \/ handleUploadImageResult /\ UNCHANGED <<outlineVars, mermaidVars>>
  \/ TocRafFires /\ UNCHANGED <<outlineVars, mermaidVars>>
  \/ nEvents < MaxEvents /\ Teardown /\ UNCHANGED <<outlineVars, mermaidVars>>
  \/ \E c \in OutlineTexts :
       nEvents < MaxEvents /\ mounted /\ LocalChange(c) /\ UNCHANGED <<scenario, uploadVars>> /\ UNCHANGED <<outlineVars, mermaidVars>>
  \/ mounted /\ handleMessage /\ UNCHANGED uploadVars /\ UNCHANGED <<outlineVars, mermaidVars>>
  \/ ListenerInSetDocument /\ UNCHANGED uploadVars /\ UNCHANGED <<outlineVars, mermaidVars>>
  \/ \E deferred \in BOOLEAN : SetDocumentReturns(deferred) /\ UNCHANGED uploadVars /\ UNCHANGED <<outlineVars, mermaidVars>>
  \/ DeferredListener /\ UNCHANGED uploadVars /\ UNCHANGED <<outlineVars, mermaidVars>>
  \/ nEvents < MaxEvents /\ onDidChangeActiveColorTheme /\ UNCHANGED uploadVars /\ UNCHANGED <<outlineVars, mermaidVars>>
  \/ onDidReceiveMessage /\ UNCHANGED uploadVars /\ UNCHANGED <<outlineVars, mermaidVars>>
  \/ onDidReceiveUploadImage /\ UNCHANGED <<outlineVars, mermaidVars>>
  \/ \E job \in hostJobs : MkdirSettles(job, TRUE, "20240101-000000") /\ UNCHANGED <<outlineVars, mermaidVars>>
  \/ \E job \in hostJobs : AccessSettles(job) /\ UNCHANGED <<outlineVars, mermaidVars>>
  \/ \E job \in hostJobs, fsOk \in BOOLEAN : WriteFileSettles(job, fsOk) /\ UNCHANGED <<outlineVars, mermaidVars>>

SpecUpload == InitUpload /\ [][NextUpload]_vars

\* the timer of every registered upload does fire unless it is cleared
SpecUploadFair ==
  /\ InitUpload
  /\ [][NextUpload]_vars
  /\ \A r \in RequestIds : WF_vars(UploadTimeout(r) /\ UNCHANGED <<outlineVars, mermaidVars>>)

C14_PendingRemovedOnlyByOwnEvent ==
  [][ \A r \in uploadResolvers \ uploadResolvers' :
        \/ lastOp' = "teardown"
        \/ /\ lastOp' = "uploadTimeout"
           /\ r \in uploadTimers \ uploadTimers'
           /\ uploadResolvers \ uploadResolvers' = {r}
        \/ /\ lastOp' = "uploadResultHandled"
           /\ Head(toSurface).requestId = StringId(r)
           /\ uploadResolvers \ uploadResolvers' = {r} ]_vars

\* C15: the timeout of a registered upload removes its entry and rejects it
\* as timed out; an upload-image-result for an id that is not in the table
\* is consumed and changes nothing.
C15_TimeoutThenLateResult ==
  [][ /\ (lastOp' = "uploadTimeout" =>
            \E r \in uploadTimers :
              /\ uploadTimers' = uploadTimers \ {r}
              /\ uploadResolvers' = uploadResolvers \ {r}
              /\ (uploadOps[r].stage = "pending" =>
                    uploadOps' = [uploadOps EXCEPT ![r] =
                       [stage |-> "settled", settles |-> 1, outcome |-> "timedOut"]]))
      /\ ( ( /\ toSurface # <<>>
             /\ toSurface' = Tail(toSurface)
             /\ IsUploadResult(Head(toSurface))
             /\ Head(toSurface).requestId.val \notin uploadResolvers )
           => UNCHANGED <<surfaceVars, toHost, mounted, tocItems,
                          uploadResolvers, uploadTimers, uploadOps>> ) ]_vars

\* the only upload timed out and its result, arriving later, was dropped
C15_Witness ==
  /\ lastOp = "uploadResultIgnored"
  /\ uploadOps["r1"] = [stage |-> "settled", settles |-> 1, outcome |-> "timedOut"]
  /\ uploadOps["r2"].stage = "none"

\* C16: once the surface is torn down the correlation table is empty and no
\* timeout timer is armed.
C16_NothingPendingAfterTeardown ==
  ~mounted => (uploadResolvers = {} /\ uploadTimers = {})

\* C18: no step changes or removes a file the assets directory already
\* holds, so every upload is written to a path of its own.
C18_NoOverwrite ==
  [][ \A name \in DOMAIN assetFiles :
        name \in DOMAIN assetFiles' /\ assetFiles'[name] = assetFiles[name] ]_vars

\* C21: a content replacement that throws during applyRemote leaves the sync
\* state as if no apply were in progress: applyingRemote is false and
\* lastSyncedContent is what it was, so a user edit made afterwards is sent.
C21_FailedApplyNotPartial ==
  [][ lastOp' = "setDocumentThrows" =>
        /\ ~applyingRemote'
        /\ lastSyncedMarkdown' = lastSyncedMarkdown ]_vars

\* no \r in a content
IsCanonical(content) == \A i \in 1..Len(content) : content[i] # "CR"

\* C27: lastSyncedContent holds canonical content (\n line endings only)
\* whenever it has been written, whatever the document's line endings are.
C27_LastSyncedCanonical == IsCanonical(lastSyncedMarkdown)

(***************************************************************************)
(* Messages no handler is written for.  The 'message' listener of the      *)
(* surface takes every message posted to its window, and the host takes    *)
(* whatever the surface's frame posts: both queues can receive values of    *)
(* any shape.                                                               *)
(***************************************************************************)
MalformedMessages ==
  {PrimitiveMessage, NullMessage, NoCommandMessage, UnknownCommandMessage}

\* window.postMessage(m) by another script, or an update without content
ForeignMessageToSurface(m) ==
  /\ nEvents < MaxEvents
  /\ toSurface' = Append(toSurface, m)
  /\ nEvents' = nEvents + 1
  /\ lastOp' = "foreignMessageToSurface"
  /\ UNCHANGED <<surfaceVars, hostVars, toHost, markedSinceApply, snapshotApplied,
                 scenario, uploadVars>>

\* vscode.postMessage(m) of a shape the host has no case for
ForeignMessageToHost(m) ==
  /\ nEvents < MaxEvents
  /\ toHost' = Append(toHost, m)
  /\ nEvents' = nEvents + 1
  /\ lastOp' = "foreignMessageToHost"
  /\ UNCHANGED <<surfaceVars, hostVars, toSurface, markedSinceApply, snapshotApplied,
                 scenario, uploadVars>>

NextMalformed ==
  \/ markUserInteraction /\ UNCHANGED scenario /\ UNCHANGED uploadVars /\ UNCHANGED <<outlineVars, mermaidVars>>
  \/ \E c \in Texts : nEvents < MaxEvents /\ LocalChange(c) /\ UNCHANGED scenario /\ UNCHANGED uploadVars /\ UNCHANGED <<outlineVars, mermaidVars>>
  \/ handleMessage /\ UNCHANGED uploadVars /\ UNCHANGED <<outlineVars, mermaidVars>>
  \/ ListenerInSetDocument /\ UNCHANGED uploadVars /\ UNCHANGED <<outlineVars, mermaidVars>>
  \/ \E deferred \in BOOLEAN : SetDocumentReturns(deferred) /\ UNCHANGED uploadVars /\ UNCHANGED <<outlineVars, mermaidVars>>
  \/ DeferredListener /\ UNCHANGED uploadVars /\ UNCHANGED <<outlineVars, mermaidVars>>
  \/ onDidReceiveMessage /\ UNCHANGED uploadVars /\ UNCHANGED <<outlineVars, mermaidVars>>
  \/ ApplyEditLands /\ UNCHANGED uploadVars /\ UNCHANGED <<outlineVars, mermaidVars>>
  \/ ApplyEditResolves /\ UNCHANGED uploadVars /\ UNCHANGED <<outlineVars, mermaidVars>>
  \/ nEvents < MaxEvents /\ onDidChangeConfiguration /\ UNCHANGED uploadVars /\ UNCHANGED <<outlineVars, mermaidVars>>
  \/ \E m \in MalformedMessages \cup {UpdateMsg("update", NotAString)} :
       ForeignMessageToSurface(m) /\ UNCHANGED <<outlineVars, mermaidVars>>
  \/ \E m \in MalformedMessages : ForeignMessageToHost(m) /\ UNCHANGED <<outlineVars, mermaidVars>>

SpecMalformed == InitConverge /\ [][NextMalformed]_vars

\* the state both sides synchronise, and the table of pending uploads
SyncState ==
  <<editorMarkdown, lastSyncedMarkdown, applyingRemote, hasUserInteraction,
    pendingRemoteContent, setDocCall, uploadResolvers, uploadTimers,
    docText, docEol, applyEdits, isApplyingFromWebview>>

\* the surface handles a message that is malformed, or an update whose
\* content is not a string
SurfaceTakesMalformed ==
  /\ toSurface # <<>>
  /\ toSurface' = Tail(toSurface)
  /\ \/ Head(toSurface) \in MalformedMessages
     \/ Head(toSurface) = UpdateMsg("update", NotAString)

HostTakesMalformed ==
  /\ toHost # <<>>
  /\ toHost' = Tail(toHost)
  /\ Head(toHost) \in MalformedMessages

Trackers == {"toc", "active"}

tocTitleId == TocTitleItem.id

\* cancelAnimationFrame(id)
CancelFrame(callbacks, id) == { cb \in callbacks : cb.id # id }

\* if (ref.current !== undefined) cancelAnimationFrame(ref.current);
\* ref.current = requestAnimationFrame(...): the callbacks waiting afterwards
ScheduleFrame_NoCancel(callbacks, ref, tracker, id) ==
  callbacks \cup { [tracker |-> tracker, id |-> id] }
ScheduleFrame(callbacks, ref, tracker, id) ==
  (IF ref # 0 THEN CancelFrame(callbacks, ref) ELSE callbacks)
    \cup { [tracker |-> tracker, id |-> id] }

\* Math.max(56, Math.min(84, window.innerHeight * 0.1))
AnchorY_Unclamped(height) == height \div 10
AnchorY(height) ==
  LET tenth == height \div 10
      capped == IF tenth < 84 THEN tenth ELSE 84
  IN IF capped > 56 THEN capped ELSE 56

Hysteresis == 6

RECURSIVE ScanHeadings(_, _, _, _)
\* the loop over the headings carrying an id: the last one above the line,
\* stopping at the first one below it
ScanHeadings(nodes, currentId, limit, y) ==
  IF nodes = <<>> THEN currentId
  ELSE IF Head(nodes).pos - y <= limit
       THEN ScanHeadings(Tail(nodes), Head(nodes).tocId, limit, y)
       ELSE currentId

HasTocId(node) == node.tocId # ""

\* data-toc-id of the element the selection anchor is in, "" when it has none;
\* the title carries one while the outline is shown (836)
SelectionTocId(nodes, items, anchor) ==
  IF anchor = -1 THEN (IF Len(items) > 0 THEN tocTitleId ELSE "")
  ELSE IF anchor \in 1..Len(nodes) THEN nodes[anchor].tocId
  ELSE ""

\* the id updateActiveTocFromScroll passes to setActiveTocId
ActiveTocIdOf(nodes, items, anchor, y, height) ==
  LET activeHeadingId == SelectionTocId(nodes, items, anchor)
      withId == SelectSeq(nodes, HasTocId)
  IN IF activeHeadingId # "" THEN activeHeadingId
     ELSE IF withId = <<>> THEN ""
     ELSE ScanHeadings(withId,
                       IF \E i \in 1..Len(items) : items[i].id = tocTitleId
                       THEN tocTitleId ELSE withId[1].tocId,
                       AnchorY(height) + Hysteresis, y)

\* an edit keeps the elements it does not replace, attributes included
KeepTocIds(old, new) ==
  [i \in 1..Len(new) |->
     [new[i] EXCEPT !.tocId = IF i <= Len(old) THEN old[i].tocId ELSE ""]]

\* a throttle that takes a defined marker for a scheduled pass
EditorUpdate_MarkerBlocks(nodes) ==
  /\ mounted
  /\ headingNodes' = KeepTocIds(headingNodes, nodes)
  /\ IF tocRafRef # 0
     THEN UNCHANGED <<rafCallbacks, tocRafRef, rafSeq>>
     ELSE /\ rafCallbacks' = ScheduleFrame(rafCallbacks, tocRafRef, "toc", rafSeq + 1)
          /\ tocRafRef' = rafSeq + 1
          /\ rafSeq' = rafSeq + 1
  /\ tocRaf' = TRUE
  /\ burst' = [burst EXCEPT !["toc"] = @ + 1]
  /\ nEvents' = nEvents + 1
  /\ lastOp' = "editorUpdate"
  /\ UNCHANGED <<ready, applyingRemote, hasUserInteraction, lastSyncedMarkdown,
                 pendingRemoteContent, editorMarkdown, setDocCall, listenerDue,
                 hostVars, toHost, toSurface, markedSinceApply, snapshotApplied,
                 scenario, uploadVars, selectionAnchor, scrollY, innerHeight,
                 activeTocId, activeTocRafRef, passFailed>>

\* the editor's update listener after a change of content (538-544):
\* scheduleTocSync()
EditorUpdate(nodes) ==
  /\ mounted
  /\ headingNodes' = KeepTocIds(headingNodes, nodes)
  /\ rafCallbacks' = ScheduleFrame(rafCallbacks, tocRafRef, "toc", rafSeq + 1)
  /\ tocRafRef' = rafSeq + 1
  /\ rafSeq' = rafSeq + 1
  /\ tocRaf' = TRUE
  /\ burst' = [burst EXCEPT !["toc"] = @ + 1]
  /\ nEvents' = nEvents + 1
  /\ lastOp' = "editorUpdate"
  /\ UNCHANGED <<ready, applyingRemote, hasUserInteraction, lastSyncedMarkdown,
                 pendingRemoteContent, editorMarkdown, setDocCall, listenerDue,
                 hostVars, toHost, toSurface, markedSinceApply, snapshotApplied,
                 scenario, uploadVars, selectionAnchor, scrollY, innerHeight,
                 activeTocId, activeTocRafRef, passFailed>>

\* handleScroll / handleSelectionChange (602-607): scheduleActiveTocSync()
ScrollOrSelect(anchor, y) ==
  /\ mounted
  /\ selectionAnchor' = anchor
  /\ scrollY' = y
  /\ rafCallbacks' = ScheduleFrame(rafCallbacks, activeTocRafRef, "active", rafSeq + 1)
  /\ activeTocRafRef' = rafSeq + 1
  /\ rafSeq' = rafSeq + 1
  /\ burst' = [burst EXCEPT !["active"] = @ + 1]
  /\ nEvents' = nEvents + 1
  /\ lastOp' = "scrollOrSelect"
  /\ UNCHANGED <<surfaceVars, hostVars, toHost, toSurface, markedSinceApply,
                 snapshotApplied, scenario, uploadVars, headingNodes, innerHeight,
                 activeTocId, tocRafRef, passFailed>>

\* the frame callback of scheduleTocSync (307-311): updateTocFromDom(),
\* scheduleActiveTocSync(), tocRafRef.current = undefined.  A replaced outline
\* rebuilds scheduleActiveTocSync, so the scroll effect (601-625) runs again
\* and calls it once more, and the message effect runs again (see TocRafFires).
TocFrame ==
  \E cb \in rafCallbacks :
    /\ cb.tracker = "toc"
    /\ LET nextItems == TocItemsOf(headingNodes)
           first == ScheduleFrame(rafCallbacks \ {cb}, activeTocRafRef, "active", rafSeq + 1)
       IN /\ headingNodes' = WithTocIds(headingNodes)
          /\ activeTocId' = IF Len(nextItems) = 0 THEN "" ELSE activeTocId
          /\ IF OutlineRebuilt(nextItems)
             THEN /\ tocItems' = nextItems
                  /\ rafCallbacks' = ScheduleFrame(first, rafSeq + 1, "active", rafSeq + 2)
                  /\ activeTocRafRef' = rafSeq + 2
                  /\ rafSeq' = rafSeq + 2
                  /\ burst' = [burst EXCEPT !["toc"] = 0, !["active"] = @ + 2]
                  /\ MessageEffectCleanup
                  /\ toHost' = Append(toHost, ReadyMsg)
             ELSE /\ rafCallbacks' = first
                  /\ activeTocRafRef' = rafSeq + 1
                  /\ rafSeq' = rafSeq + 1
                  /\ burst' = [burst EXCEPT !["toc"] = 0, !["active"] = @ + 1]
                  /\ UNCHANGED <<tocItems, uploadOps, uploadTimers, uploadResolvers, toHost>>
    /\ tocRafRef' = 0
    /\ tocRaf' = FALSE
    /\ lastOp' = "tocFrame"
    /\ UNCHANGED <<ready, applyingRemote, hasUserInteraction, lastSyncedMarkdown,
                   pendingRemoteContent, editorMarkdown, setDocCall, listenerDue,
                   hostVars, toSurface, markedSinceApply, snapshotApplied, scenario,
                   nEvents, mounted, hostJobs, assetFiles, hostLog,
                   selectionAnchor, scrollY, innerHeight, passFailed>>

\* the same callback when updateTocFromDom throws: the two statements after
\* it are skipped, tocRafRef keeps the handle of the frame that has run
TocFrameThrows ==
  \E cb \in rafCallbacks :
    /\ cb.tracker = "toc"
    /\ rafCallbacks' = rafCallbacks \ {cb}
    /\ burst' = [burst EXCEPT !["toc"] = 0]
    /\ passFailed' = TRUE
    /\ lastOp' = "tocFrameThrows"
    /\ UNCHANGED <<surfaceVars, hostVars, toHost, toSurface, markedSinceApply,
                   snapshotApplied, scenario, nEvents, uploadVars, headingNodes,
                   selectionAnchor, scrollY, innerHeight, activeTocId, tocRafRef,
                   activeTocRafRef, rafSeq>>

\* the frame callback of scheduleActiveTocSync (295-298)
ActiveTocFrame ==
  \E cb \in rafCallbacks :
    /\ cb.tracker = "active"
    /\ rafCallbacks' = rafCallbacks \ {cb}
    /\ activeTocId' = ActiveTocIdOf(headingNodes, tocItems, selectionAnchor,
                                    scrollY, innerHeight)
    /\ activeTocRafRef' = 0
    /\ burst' = [burst EXCEPT !["active"] = 0]
    /\ lastOp' = "activeTocFrame"
    /\ UNCHANGED <<surfaceVars, hostVars, toHost, toSurface, markedSinceApply,
                   snapshotApplied, scenario, nEvents, uploadVars, headingNodes,
                   selectionAnchor, scrollY, innerHeight, tocRafRef, rafSeq,
                   passFailed>>

\* cleanup of the frame effect (550-557): both handles are cancelled
FramesAfterCleanup_TocOnly(callbacks, tocRef, activeRef) == CancelFrame(callbacks, tocRef)
FramesAfterCleanup(callbacks, tocRef, activeRef) ==
  CancelFrame(CancelFrame(callbacks, tocRef), activeRef)

\* EditorApp unmounts: every effect cleanup runs, listeners are removed
Unmount ==
  /\ mounted
  /\ Teardown
  /\ rafCallbacks' = FramesAfterCleanup(rafCallbacks, tocRafRef, activeTocRafRef)
  /\ UNCHANGED <<headingNodes, selectionAnchor, scrollY, innerHeight, activeTocId,
                 tocRafRef, activeTocRafRef, rafSeq, burst, passFailed>>

\* a heading element that has not been through an outline pass
HeadingNode(level, text, pos) == [level |-> level, text |-> text, pos |-> pos, tocId |-> ""]

\* heading lists the editor moves between
OutlineDoms ==
  { <<>>,
    << HeadingNode(1, <<"a">>, 0) >>,
    << HeadingNode(1, <<"a">>, 0), HeadingNode(2, <<" ">>, 50), HeadingNode(3, <<"b">>, 300) >> }

InitOutline ==
  /\ IdleSession
  /\ docText = <<"a">>
  /\ diskText = docText
  /\ docEol = "LF"
  /\ toHost = <<>>
  /\ assetFiles = <<>>
  /\ NoOutline
  /\ NoPreview

NextOutline ==
  \/ \E nodes \in OutlineDoms : nEvents < MaxEvents /\ EditorUpdate(nodes) /\ UNCHANGED mermaidVars
  \/ \E anchor \in {-1, 0, 1}, y \in {0, 250} :
       nEvents < MaxEvents /\ ScrollOrSelect(anchor, y) /\ UNCHANGED mermaidVars
  \/ TocFrame /\ UNCHANGED mermaidVars
  \/ TocFrameThrows /\ UNCHANGED mermaidVars
  \/ ActiveTocFrame /\ UNCHANGED mermaidVars
  \/ nEvents < MaxEvents /\ Unmount /\ UNCHANGED mermaidVars

SpecOutline == InitOutline /\ [][NextOutline]_vars

\* the step is a completed pass of updateTocFromDom
OutlinePassStep == lastOp' = "tocFrame"

\* C22: an outline pass that extracts what is stored keeps the stored outline
\* and rebuilds nothing that depends on it (the message effect does not run
\* again) and leaves the active entry alone; a pass that extracts something
\* else stores what it extracted.
C22_OutlineStability ==
  [][ OutlinePassStep =>
        IF TocItemsOf(headingNodes) = tocItems
        THEN /\ tocItems' = tocItems
             /\ toHost' = toHost
             /\ uploadResolvers' = uploadResolvers
             /\ activeTocId' = activeTocId
        ELSE tocItems' = TocItemsOf(headingNodes) ]_vars

\* a pass has just found the outline it had stored, an entry being active
C22_Witness ==
  /\ lastOp = "tocFrame"
  /\ activeTocId # ""
  /\ Len(toHost) = 1

\* the callbacks of a tracker that are requested and have not run
Pending(tracker) == { cb \in rafCallbacks : cb.tracker = tracker }

\* the step is a request to a tracker made by a listener
RequestStep(tracker) ==
  \/ tracker = "toc" /\ lastOp' = "editorUpdate"
  \/ tracker = "active" /\ lastOp' = "scrollOrSelect"

\* the step runs the pass of a tracker
FrameStep(tracker) ==
  \/ tracker = "toc" /\ lastOp' \in {"tocFrame", "tocFrameThrows"}
  \/ tracker = "active" /\ lastOp' = "activeTocFrame"

\* C23: each tracker has at most one pass scheduled and not yet run; a request
\* made while one is pending cancels it and schedules a new one; the requests
\* of a burst are answered by one run of the pass.
C23_Throttling ==
  /\ [](\A tracker \in Trackers : Cardinality(Pending(tracker)) <= 1)
  /\ [][ \A tracker \in Trackers :
           /\ RequestStep(tracker) =>
                /\ Cardinality(Pending(tracker)') = 1
                /\ Pending(tracker)' \cap Pending(tracker) = {}
           /\ (FrameStep(tracker) /\ burst[tracker] >= 1) =>
                /\ Cardinality(Pending(tracker)) = 1
                /\ Pending(tracker)' = {} ]_vars

\* two requests reached a tracker before its pass ran
C23_Witness ==
  /\ burst["toc"] >= 2
  /\ burst["active"] >= 2
  /\ \A tracker \in Trackers : Cardinality(Pending(tracker)) = 1

\* C24: teardown cancels every scheduled pass of both trackers, and once the
\* surface is torn down no pass runs and none is scheduled.
C24_NoPassAfterTeardown ==
  /\ [](~mounted => rafCallbacks = {})
  /\ [][ /\ lastOp' = "teardown" => rafCallbacks' = {}
         /\ ~mounted => /\ \A tracker \in Trackers : ~FrameStep(tracker)
                        /\ rafCallbacks' = {}
                        /\ <<tocItems, activeTocId>>' = <<tocItems, activeTocId>> ]_vars

\* the surface was torn down while a pass of each tracker was scheduled
C24_Witness ==
  /\ ~mounted
  /\ burst["toc"] >= 1
  /\ burst["active"] >= 1

\* tocRafRef holds the handle of a frame that has already run
StaleMarker == tocRafRef # 0 /\ Pending("toc") = {}

\* C30: a pass in which updateTocFromDom throws leaves the stored outline and
\* the active entry as they were, and the marker it leaves behind neither
\* blocks nor loses later requests: each is scheduled, and a scheduled pass
\* can run.
C30_FailedPassNonFatal ==
  /\ [](Pending("toc") # {} => ENABLED (TocFrame /\ UNCHANGED mermaidVars))
  /\ [][ /\ lastOp' = "tocFrameThrows" =>
              <<tocItems, activeTocId>>' = <<tocItems, activeTocId>>
         /\ (StaleMarker /\ RequestStep("toc")) =>
              Pending("toc")' = { [tracker |-> "toc", id |-> tocRafRef'] } ]_vars

\* after a pass that threw, a later request was scheduled and its pass ran,
\* storing a new outline
C30_Witness ==
  /\ passFailed
  /\ lastOp = "tocFrame"
  /\ tocItems # <<>>

(***************************************************************************)
(* The two passes as functions of the page: every list of headings, and    *)
(* every position of selection and scroll, goes through one outline pass   *)
(* and one active-entry pass.                                              *)
(***************************************************************************)
MaxHeadings == 2

SeqsUpTo(S, n) == UNION { [1..k -> S] : k \in 0..n }

Levels == 1..6
HeadingTexts == { <<>>, <<" ">>, <<"a">>, <<" ", "b", " ">> }

\* headings of every level and text, laid out 100 px apart
ExtractInputs ==
  { [i \in 1..Len(shape) |-> HeadingNode(shape[i][1], shape[i][2], 100 * (i - 1))] :
      shape \in SeqsUpTo(Levels \X HeadingTexts, MaxHeadings) }

InitExtract ==
  /\ IdleSession
  /\ docText = <<"a">>
  /\ diskText = docText
  /\ docEol = "LF"
  /\ toHost = <<>>
  /\ assetFiles = <<>>
  /\ headingNodes \in ExtractInputs
  /\ selectionAnchor = 0
  /\ scrollY = 0
  /\ innerHeight = 700
  /\ TrackersAtRest
  /\ NoPreview

\* offsets on both sides of the lines 56 + 6 and 84 + 6
Positions == {0, 62, 63, 90, 91}
Heights == {400, 700, 1000}

\* headings in layout order: offsets do not decrease down the document
ActiveInputs ==
  { nodes \in { [i \in 1..Len(shape) |-> HeadingNode(1, shape[i][1], shape[i][2])] :
                  shape \in SeqsUpTo({ <<"a">>, <<" ">> } \X Positions, MaxHeadings) } :
      \A i \in 1..(Len(nodes) - 1) : nodes[i].pos <= nodes[i + 1].pos }

InitActive ==
  /\ IdleSession
  /\ docText = <<"a">>
  /\ diskText = docText
  /\ docEol = "LF"
  /\ toHost = <<>>
  /\ assetFiles = <<>>
  /\ headingNodes \in ActiveInputs
  /\ selectionAnchor \in -1..MaxHeadings
  /\ scrollY \in {0, 1}
  /\ innerHeight \in Heights
  /\ TrackersAtRest
  /\ NoPreview

\* an edit that leaves the headings, then the two passes
NextPass ==
  \/ nEvents < MaxEvents /\ EditorUpdate(headingNodes) /\ UNCHANGED mermaidVars
  \/ TocFrame /\ UNCHANGED mermaidVars
  \/ ActiveTocFrame /\ UNCHANGED mermaidVars

SpecExtract == InitExtract /\ [][NextPass]_vars
SpecActive == InitActive /\ [][NextPass]_vars

\* the heading has a character that is not white space
Survives(node) == \E k \in 1..Len(node.text) : node.text[k] # " "

\* the text between the first and the last character that is not white space
TrimmedText(text) ==
  LET black == { k \in 1..Len(text) : text[k] # " " }
  IN SubSeq(text, CHOOSE k \in black : \A m \in black : k <= m,
                  CHOOSE k \in black : \A m \in black : k >= m)

\* C28: the outline holds exactly the headings whose trimmed text is not
\* empty, in document order; the i-th of them (from 0) has id toc-heading-i,
\* depth max(0, level - 1), its level and its trimmed text; the title entry of
\* depth 0 comes first iff some heading is kept; a heading with empty text
\* carries no outline id.
C28_OutlineExtraction ==
  [][ OutlinePassStep =>
        LET nodes == headingNodes
            kept == { i \in 1..Len(nodes) : Survives(nodes[i]) }
            Rank(i) == Cardinality({ j \in kept : j < i })
            IdOf(i) == "toc-heading-" \o ToString(Rank(i))
        IN /\ Len(tocItems') = IF kept = {} THEN 0 ELSE Cardinality(kept) + 1
           /\ kept # {} => /\ tocItems'[1].id = "toc-document-title"
                           /\ tocItems'[1].depth = 0
           /\ \A i \in kept :
                tocItems'[Rank(i) + 2] =
                  [depth |-> IF nodes[i].level > 1 THEN nodes[i].level - 1 ELSE 0,
                   id    |-> IdOf(i),
                   level |-> nodes[i].level,
                   text  |-> TrimmedText(nodes[i].text)]
           /\ \A i \in 1..Len(nodes) :
                headingNodes'[i].tocId = IF i \in kept THEN IdOf(i) ELSE "" ]_vars

\* a pass over a heading of white space followed by an h6 with padded text
C28_Witness ==
  /\ lastOp = "tocFrame"
  /\ Len(headingNodes) = 2
  /\ headingNodes[1].text = <<" ">>
  /\ headingNodes[2].level = 6
  /\ headingNodes[2].tocId = "toc-heading-0"
  /\ Len(tocItems) = 2
  /\ tocItems[2].text = <<"b">>

\* the greatest and the least element of a set of indexes
Last(S) == CHOOSE i \in S : \A j \in S : i >= j
First(S) == CHOOSE i \in S : \A j \in S : i <= j

MermaidSource(code) == Trim(ReplaceCr(ReplaceCrLf(code)))

\* what the canvas shows for a rendered source, and the message of a failure
SvgOf(source) == <<"svg">> \o source
RenderErrorOf(source) == <<"error">> \o source

\* codes of a block: nothing, white space, two diagrams
MermaidCodes == { <<>>, <<" ">>, <<"g">>, <<"h", "LF">> }

\* the user edits the block: the decorator passes node.code to the preview
CodeChanges(code) ==
  /\ code # previewCode
  /\ previewCode' = code
  /\ previewEffectDue' = TRUE
  /\ nEvents' = nEvents + 1
  /\ lastOp' = "codeChanges"
  /\ UNCHANGED <<surfaceVars, hostVars, toHost, toSurface, markedSinceApply,
                 snapshotApplied, scenario, uploadVars, outlineVars,
                 previewIsEmpty, previewError, previewCanvas, renderTokenRef,
                 previewRenders>>

\* useBodyTheme: the data-theme attribute of body changes, the preview renders
\* again with the new theme and the effect is due again
BodyThemeChanges ==
  /\ previewEffectDue' = TRUE
  /\ nEvents' = nEvents + 1
  /\ lastOp' = "bodyThemeChanges"
  /\ UNCHANGED <<surfaceVars, hostVars, toHost, toSurface, markedSinceApply,
                 snapshotApplied, scenario, uploadVars, outlineVars,
                 previewCode, previewIsEmpty, previewError, previewCanvas,
                 renderTokenRef, previewRenders>>

\* the effect on [code, isZh, theme] (1052-1095), up to the await
PreviewEffect ==
  /\ previewEffectDue
  /\ previewEffectDue' = FALSE
  /\ LET source == MermaidSource(previewCode) IN
       IF previewIsEmpty
       THEN \* containerRef.current is null: return
            UNCHANGED <<previewIsEmpty, previewError, previewCanvas, renderTokenRef,
                        previewRenders>>
       ELSE IF source = <<>>
       THEN /\ previewCanvas' = <<>>
            /\ previewIsEmpty' = TRUE
            /\ previewError' = <<>>
            /\ UNCHANGED <<renderTokenRef, previewRenders>>
       ELSE /\ previewIsEmpty' = FALSE
            /\ previewError' = <<>>
            /\ renderTokenRef' = renderTokenRef + 1
            /\ previewRenders' = previewRenders \cup
                 { [token |-> renderTokenRef + 1, source |-> source] }
            /\ UNCHANGED previewCanvas
  /\ lastOp' = "previewEffect"
  /\ UNCHANGED <<surfaceVars, hostVars, toHost, toSurface, markedSinceApply,
                 snapshotApplied, scenario, nEvents, uploadVars, outlineVars,
                 previewCode>>

RenderIsStale_IgnoresToken(render) == previewIsEmpty
\* !containerRef.current || currentToken !== renderTokenRef.current
RenderIsStale(render) == previewIsEmpty \/ render.token # renderTokenRef

\* mermaid.render resolves (1078-1081) or rejects (1083-1092)
RenderSettles(render, ok) ==
  /\ render \in previewRenders
  /\ previewRenders' = previewRenders \ {render}
  /\ IF RenderIsStale(render)
     THEN UNCHANGED <<previewCanvas, previewError>>
     ELSE IF ok
     THEN /\ previewCanvas' = SvgOf(render.source)
          /\ UNCHANGED previewError
     ELSE /\ previewCanvas' = <<>>
          /\ previewError' = RenderErrorOf(render.source)
  /\ lastOp' = "renderSettles"
  /\ UNCHANGED <<surfaceVars, hostVars, toHost, toSurface, markedSinceApply,
                 snapshotApplied, scenario, nEvents, uploadVars, outlineVars,
                 previewCode, previewIsEmpty, renderTokenRef, previewEffectDue>>

\* a Mermaid block has just been mounted with some code
InitMermaid ==
  /\ IdleSession
  /\ docText = <<"a">>
  /\ diskText = docText
  /\ docEol = "LF"
  /\ toHost = <<>>
  /\ assetFiles = <<>>
  /\ NoOutline
  /\ previewCode \in MermaidCodes
  /\ previewIsEmpty = FALSE
  /\ previewError = <<>>
  /\ previewCanvas = <<>>
  /\ renderTokenRef = 0
  /\ previewRenders = {}
  /\ previewEffectDue = TRUE

NextMermaid ==
  \/ \E code \in MermaidCodes : nEvents < MaxEvents /\ CodeChanges(code)
  \/ nEvents < MaxEvents /\ BodyThemeChanges
  \/ PreviewEffect
  \/ \E render \in previewRenders, ok \in BOOLEAN : RenderSettles(render, ok)

SpecMermaid == InitMermaid /\ [][NextMermaid]_vars

\* the code has stopped changing and nothing of the preview is under way
PreviewSettled == ~previewEffectDue /\ previewRenders = {}

\* the preview shows the diagram or the render error of the code
ShowsLatest ==
  /\ ~previewIsEmpty
  /\ \/ previewCanvas = SvgOf(MermaidSource(previewCode))
     \/ previewError = RenderErrorOf(MermaidSource(previewCode))

\* C26: once the code of a Mermaid block has stopped changing and is not
\* empty after trimming, the preview shows the diagram or the render error of
\* that code and not the "block is empty" placeholder, also when the code was
\* empty before.
C26_LivePreview ==
  (PreviewSettled /\ MermaidSource(previewCode) # <<>>) => ShowsLatest

\* C38: the stored outline is empty, or it is the title entry (id
\* toc-document-title, depth 0, level 1) followed by at least one heading
\* entry, no other entry being a title entry, and its ids are pairwise distinct.
C38_OutlineShape ==
  \/ tocItems = <<>>
  \/ /\ Len(tocItems) >= 2
     /\ tocItems[1].id = "toc-document-title"
     /\ tocItems[1].depth = 0
     /\ tocItems[1].level = 1
     /\ \A i \in 2..Len(tocItems) : tocItems[i].id # "toc-document-title"
     /\ \A i, j \in 1..Len(tocItems) : tocItems[i].id = tocItems[j].id => i = j

\* a pass has stored the title and two headings
C38_Witness ==
  /\ lastOp = "tocFrame"
  /\ Len(tocItems) = 3

Sends(queue, queueAfter, m) ==
  /\ Len(queueAfter) = Len(queue) + 1
  /\ queueAfter[Len(queueAfter)] = m

\* C33: in a session that has booted the surface sends no further `ready`,
\* whatever happens on the surface (an outline change, a theme change, a
\* document update), and the host posts no further `init` snapshot.
C33_ReadyOnce ==
  [][ /\ ~Sends(toHost, toHost', ReadyMsg)
      /\ \A text \in {docText, docText'} :
           ~Sends(toSurface, toSurface', UpdateMsg("init", text)) ]_vars

(***************************************************************************)
(* Boot: the surface has posted `ready` and the editor engine has not yet  *)
(* called onInit; snapshots of the host arrive in the meantime.            *)
(***************************************************************************)
InitBoot ==
  /\ Init
  /\ docText = <<"a">>
  /\ diskText = docText

NextBoot ==
  \/ markUserInteraction /\ UNCHANGED <<scenario, uploadVars, outlineVars, mermaidVars>>
  \/ \E c \in Texts :
       nEvents < MaxEvents /\ LocalChange(c) /\ UNCHANGED <<scenario, uploadVars, outlineVars, mermaidVars>>
  \/ nEvents < MaxEvents /\ handleSave /\ UNCHANGED <<uploadVars, outlineVars, mermaidVars>>
  \/ handleMessage /\ UNCHANGED <<uploadVars, outlineVars, mermaidVars>>
  \/ ListenerInSetDocument /\ UNCHANGED <<uploadVars, outlineVars, mermaidVars>>
  \/ \E deferred \in BOOLEAN :
       SetDocumentReturns(deferred) /\ UNCHANGED <<uploadVars, outlineVars, mermaidVars>>
  \/ DeferredListener /\ UNCHANGED <<uploadVars, outlineVars, mermaidVars>>
  \/ EditorOnInit /\ UNCHANGED <<uploadVars, outlineVars, mermaidVars>>
  \/ onDidReceiveMessage /\ UNCHANGED <<uploadVars, outlineVars, mermaidVars>>
  \/ ApplyEditLands /\ UNCHANGED <<uploadVars, outlineVars, mermaidVars>>
  \/ ApplyEditResolves /\ UNCHANGED <<uploadVars, outlineVars, mermaidVars>>
  \/ \E c \in Texts :
       nEvents < MaxEvents /\ ExternalChange(c) /\ UNCHANGED <<scenario, uploadVars, outlineVars, mermaidVars>>
  \/ nEvents < MaxEvents /\ onDidChangeConfiguration /\ UNCHANGED <<uploadVars, outlineVars, mermaidVars>>

SpecBoot == InitBoot /\ [][NextBoot]_vars

\* C34: a snapshot received before the editor is ready only replaces the
\* pending content: the editor, lastSyncedContent and the outbound queue stay
\* as they are.  When the editor becomes ready the pending content, which is
\* the snapshot received last, is applied under applyingRemote, and
\* lastSyncedContent is set to it.
C34_BufferedUntilReady ==
  [][ /\ (~ready /\ toSurface # <<>> /\ toSurface' = Tail(toSurface)
            /\ Head(toSurface).command = "update") =>
           /\ pendingRemoteContent' = << Head(toSurface).content >>
           /\ editorMarkdown' = editorMarkdown
           /\ lastSyncedMarkdown' = lastSyncedMarkdown
           /\ ~applyingRemote'
           /\ toHost' = toHost
      /\ (~ready /\ ready' /\ pendingRemoteContent # <<>>) =>
           /\ applyingRemote'
           /\ DocTextOf(editorMarkdown', docEol) = pendingRemoteContent[1]
           /\ toHost' = toHost
      /\ lastOp' = "onInitApplied" =>
           /\ ~applyingRemote'
           /\ lastSyncedMarkdown' = pendingRemoteContent[1]
           /\ toHost' = toHost ]_vars

\* the init snapshot of "a" and the update of an external change were both
\* buffered; the editor became ready and holds the later one
C34_Witness ==
  /\ lastOp = "onInitApplied"
  /\ toSurface = <<>>
  /\ toHost = <<>>
  /\ lastSyncedMarkdown = DocTextOf(<<"a", "LF", "b">>, docEol)
  /\ editorMarkdown = <<"a", "LF", "b">>

\* the message this step appended to the surface's outbound queue, if any
EmittedBy(queue, queueAfter) ==
  IF Len(queueAfter) = Len(queue) + 1 THEN << queueAfter[Len(queueAfter)] >> ELSE <<>>

\* C35: whenever the surface emits an `edit` or a `save`, lastSyncedContent
\* then equals the content it carries; an emitted `edit` differs from
\* lastSyncedContent as it was before; and lastSyncedContent changes only by
\* an emission or by applying a remote snapshot.  Hence an `edit` never
\* repeats the content of the message sent immediately before it unless a
\* remote update was applied in between.
C35_NoRepeatedEdit ==
  [][ LET emitted == EmittedBy(toHost, toHost') IN
      /\ (emitted # <<>> /\ emitted[1].command \in {"edit", "save"}) =>
           /\ lastSyncedMarkdown' = emitted[1].content
           /\ emitted[1].command = "edit" => emitted[1].content # lastSyncedMarkdown
      /\ lastSyncedMarkdown' # lastSyncedMarkdown =>
           \/ emitted # <<>> /\ emitted[1].command \in {"edit", "save"}
           \/ lastOp' \in {"applyRemoteEqual", "applyRemoteApplied", "onInitApplied"} ]_vars

\* a save and then an edit are waiting in the outbound queue, with different
\* contents, and no remote snapshot was applied after the interaction
C35_Witness ==
  /\ lastOp = "localChange"
  /\ Len(toHost) = 2
  /\ toHost[1].command = "save"
  /\ toHost[2].command = "edit"
  /\ toHost[2].content # toHost[1].content
  /\ lastSyncedMarkdown = toHost[2].content
  /\ markedSinceApply

\* C36: every change of the host document that is not the host applying a
\* surface edit or save posts an `update` snapshot with the new text to the
\* surface, also while an applyContent call is awaiting its applyEdit.
C36_ExternalChangePosted ==
  [][ lastOp' = "externalChange" =>
        Sends(toSurface, toSurface', UpdateMsg("update", docText')) ]_vars

(***************************************************************************)
(* saveImageToAssets on the characters of the payload.                     *)
(***************************************************************************)
\* longest payload text drawn
MaxPayloadLen == 3

\* \w of the regular expression: [A-Za-z0-9_], one representative per range
WordChars == {"A", "z", "0", "_"}

\* the characters a payload text is drawn from
PayloadChars == WordChars \cup {"+", "/", "=", ",", "-"}

PayloadTexts == UNION { [1..n -> PayloadChars] : n \in 0..MaxPayloadLen }

\* payload.dataBase64.indexOf(','), 1-based, 0 when there is none
IndexOfComma(text) ==
  IF \E i \in 1..Len(text) : text[i] = ","
  THEN CHOOSE i \in 1..Len(text) : text[i] = "," /\ \A j \in 1..(i - 1) : text[j] # ","
  ELSE 0

\* raw: the payload after the first comma, the whole payload without one
RawOf(text) ==
  IF IndexOfComma(text) # 0 THEN SubSeq(text, IndexOfComma(text) + 1, Len(text)) ELSE text

\* /^[\w+/]+=*$/.test(raw)
MatchesBase64Pattern(raw) ==
  \E k \in 1..Len(raw) :
    /\ \A i \in 1..k : raw[i] \in WordChars \cup {"+", "/"}
    /\ \A i \in (k + 1)..Len(raw) : raw[i] = "="

\* Buffer.from(raw, 'base64').length for a raw that matches the pattern:
\* six bits for each character before the padding
DecodedLength(raw) ==
  (6 * Cardinality({ i \in 1..Len(raw) : raw[i] # "=" })) \div 8

\* the dataBase64 field holding this text
PayloadOf(text) ==
  [kind |-> "string", chars |-> Len(text),
   wellFormed |-> MatchesBase64Pattern(RawOf(text)),
   bytes |-> IF MatchesBase64Pattern(RawOf(text)) THEN DecodedLength(RawOf(text)) ELSE 0,
   text |-> text]

InitDecode ==
  /\ IdleSession
  /\ docText = <<"a">>
  /\ diskText = docText
  /\ docEol = "LF"
  /\ \E text \in PayloadTexts :
       toHost = <<UploadImageMsg(StringId("r1"), PayloadOf(text))>>
  /\ assetFiles = ExistingFiles({})
  /\ NoOutline
  /\ NoPreview

SpecDecode == InitDecode /\ [][NextHostUpload]_vars

\* the base64 alphabet: A-Z, a-z, 0-9, '+' and '/'
Base64Alphabet == {"A", "z", "0", "+", "/"}

\* a character outside the base64 alphabet, '=' counting as inside only in
\* a trailing run
HasNonBase64(raw) ==
  ~ \E k \in 0..Len(raw) :
      /\ \A i \in 1..k : raw[i] \in Base64Alphabet
      /\ \A i \in (k + 1)..Len(raw) : raw[i] = "="

\* C31: a payload whose text after the data-URI prefix has a character
\* outside the base64 alphabet is answered with the invalid-encoding error
\* (unless the file system failed before the payload was looked at); it is
\* never answered with success, the empty-payload or the size error.
C31_NonBase64Rejected ==
  \A i \in 1..Len(toSurface) :
    ( /\ hostLog # <<>>
      /\ HasNonBase64(RawOf(hostLog[1].data.text))
      /\ toSurface[i].error \notin {FsError, ExhaustedError} ) =>
        /\ ~toSurface[i].ok
        /\ toSurface[i].error = InvalidBase64Error

(***************************************************************************)
(* safeImageBaseName on the characters of the file name of an upload.      *)
(***************************************************************************)
\* longest file name drawn
MaxNameLen == 4

\* the characters a file name is drawn from
FileNameChars == {"A", "1", "_", "-", ".", " ", "/"}

FileNames ==
  {MissingFileName} \cup
    { FileName(text) : text \in UNION { [1..n -> FileNameChars] : n \in 0..MaxNameLen } }

InitBaseName ==
  /\ IdleSession
  /\ docText = <<"a">>
  /\ diskText = docText
  /\ docEol = "LF"
  /\ \E fileName \in FileNames :
       toHost = << [command |-> "upload-image", requestId |-> StringId("r1"),
                    dataBase64 |-> GoodData, fileName |-> fileName] >>
  /\ assetFiles = ExistingFiles({})
  /\ NoOutline
  /\ NoPreview

SpecBaseName == InitBaseName /\ [][NextHostUpload]_vars

\* the letters and digits a base name can hold
AlphaNumerics == {"a", "e", "g", "i", "m", "1"}

\* C32: the base name of the file to write is not empty and has no upper-case
\* letter; it holds only letters, digits, '-' and '_'; every run of other
\* characters of the name has become a single '-' (no two '-' are adjacent;
\* underscores stay as they are); it neither starts nor ends with '-', '_'
\* or '.'; and it is `image` when the name is absent or empty.
C32_SafeBaseName ==
  \A job \in hostJobs :
    job.pc = "writeFile" =>
      LET name == safeImageBaseName(job.fileName) IN
      /\ job.path[1] = Join(name)
      /\ name # <<>>
      /\ \A i \in 1..Len(name) : name[i] \in AlphaNumerics \cup {"-", "_"}
      /\ \A i \in 1..(Len(name) - 1) : ~(name[i] = "-" /\ name[i + 1] = "-")
      /\ name[1] \in AlphaNumerics
      /\ name[Len(name)] \in AlphaNumerics
      /\ (job.fileName.kind = "missing" \/ job.fileName.text = <<>>) => job.path[1] = "image"

\* the name "A -1" has become "a-1": lower case, the run " -" one separator
C32_Witness ==
  \E job \in hostJobs :
    /\ job.pc = "writeFile"
    /\ job.fileName = FileName(<<"A", " ", "-", "1">>)
    /\ job.path[1] = "a-1"

\* C32 as stated: every run of non-alphanumeric characters is collapsed to a
\* single separator, so no two characters that are neither letter nor digit
\* are adjacent in the base name.
C32_RunsCollapsed ==
  \A job \in hostJobs :
    job.pc = "writeFile" =>
      LET name == safeImageBaseName(job.fileName) IN
      \A i \in 1..(Len(name) - 1) :
        name[i] \in AlphaNumerics \/ name[i + 1] \in AlphaNumerics

====
